---- MODULE Spec2Model ----
(***************************************************************************)
(* Key-sealed envelope: a payload is encrypted once under a fresh content  *)
(* encryption key (CEK), the CEK is wrapped for every recipient, the       *)
(* triple {kid, cek, payload} is signed and a commitment tag (ctx) over    *)
(* the encrypted payload is attached.                                      *)
(*                                                                         *)
(* The cryptographic provider (WebCrypto) is modelled symbolically: a byte *)
(* string is a record that says how it was made, how long it is and        *)
(* whether its bytes were changed afterwards (mod).  Values drawn from the *)
(* secure random source are named after the call and the place that drew   *)
(* them, so two draws never coincide.                                      *)
(***************************************************************************)
EXTENDS Integers, Sequences, FiniteSets, TLC

VARIABLES
    createCalls,  \* the create calls, by owner: arguments, instance returned or error
    suite,        \* algorithm family / curve of the deployed key set
    sealer,       \* the Sealer instance (privateKey, privateKid, recipientKeys)
    unsealers,    \* the Unsealer instances, by owner
    sealCalls,    \* the seal calls: position (pc), arguments, locals, result
    wire,         \* the envelope in transit, or NoEnvelope
    touched,      \* the envelope fields changed in transit so far
    unsealCalls,  \* the unseal calls, by unsealer
    codec         \* the payload codec and its server: batch in transit, calls, reply

vars == <<createCalls, suite, sealer, unsealers, sealCalls, wire, touched, unsealCalls, codec>>

-----------------------------------------------------------------------------
(* Bounds of the model *)

\* longest plaintext, in characters (string) or bytes (binary)
MaxLen == 1
\* longest list of recipient ids given to Sealer.seal
MaxRecipients == 2
\* most envelope fields changed in transit
MaxTouched == 1

-----------------------------------------------------------------------------
(* Sizes fixed by the code *)

\* encryptPayload: crypto.getRandomValues(new Uint8Array(12))
IvLength == 12
\* sealCore / unsealCore: encryptedPayload.subarray(-16)
GcmTagLength == 16
\* decryptCEK: encryptedBytes.subarray(0, 65)
EphemeralPrefixLength == 65

\* crypto.subtle.exportKey("raw", publicKey): 1 + 2 * coordinate size
RawPublicKeyLength(crv) == IF crv = "P-256" THEN 65 ELSE 97
\* generateCEK: {name: "AES-GCM", length: 256}
AesKeyBits == 256
\* the RSA keys of the test suites and examples: modulusLength: 2048
ModulusBits == 2048
\* an RSA ciphertext or signature fills the modulus; an ECDSA signature is r || s
RsaBlockLength == ModulusBits \div 8
EcdsaSignatureLength(crv) == IF crv = "P-256" THEN 64 ELSE 96
\* an exported CEK
CekLength == AesKeyBits \div 8
\* a SHA-256 digest
DigestLength == 256 \div 8

-----------------------------------------------------------------------------
(* Key descriptors (JWK) and key handles (CryptoKey) *)

Suites == {"RSA", "P-256", "P-384"}

FamilyOf(s) == IF s = "RSA" THEN "RSA" ELSE "EC"
CurveOf(s) == IF s = "RSA" THEN "none" ELSE s

\* the suites of the family of s: the curves an EC descriptor may name
SuitesOfFamily(s) == {t \in Suites : FamilyOf(t) = FamilyOf(s)}

\* A named JWK: kid, key type, curve, the key pair it belongs to (mat) and
\* whether it holds the private half.
JWK(kid, s, mat, priv) ==
    [kid |-> kid, kty |-> FamilyOf(s), crv |-> CurveOf(s), mat |-> mat, priv |-> priv]

\* crypto.subtle.importKey("jwk", jwk, {name: alg, ...}): the handle reports
\* the algorithm it was imported for.
importKey(jwk, alg) ==
    [id |-> jwk.mat, alg |-> alg, crv |-> jwk.crv, priv |-> jwk.priv]

NoKey == [id |-> <<>>, alg |-> "none", crv |-> "none", priv |-> FALSE]

Senders == {"alice", "amy"}
Recipients == {"bob", "carol"}
\* ids no key set knows
Strangers == {"yan", "zed"}
\* a key id that names the prototype accessor of a plain object
PrototypeKid == "__proto__"
\* names that every plain object answers to without having them as its own:
\* a lookup of one of them gives a member of Object.prototype, of which
\* these are all
InheritedMembers ==
    {PrototypeKid, "constructor", "hasOwnProperty", "isPrototypeOf",
     "propertyIsEnumerable", "toLocaleString", "toString", "valueOf",
     "__defineGetter__", "__defineSetter__", "__lookupGetter__", "__lookupSetter__"}
\* such a member: an object or a function, truthy, that has no algorithm
InheritedValue == [id |-> <<"Object.prototype">>, alg |-> "undefined", crv |-> "none", priv |-> FALSE]

SigningJWK(who, s, priv) == JWK(who, s, <<who, "sig">>, priv)
EncryptionJWK(who, s, priv) == JWK(who, s, <<who, "enc">>, priv)

\* A map that keeps the key a kid was first given.
MapSet_KeepFirst(map, kid, key) ==
    [k \in DOMAIN map \cup {kid} |-> IF k \in DOMAIN map THEN map[k] ELSE key]

\* Map.prototype.set(kid, key): the entry of the kid is added or replaced
MapSet(map, kid, key) ==
    [k \in DOMAIN map \cup {kid} |-> IF k = kid THEN key ELSE map[k]]

\* The kid -> key map built by create: keys are inserted in order, so the
\* last descriptor given for a kid wins.
RECURSIVE KeyMap(_, _)
KeyMap(jwks, alg) ==
    IF jwks = <<>> THEN [k \in {} |-> NoKey]
    ELSE LET n == Len(jwks)
         IN  MapSet(KeyMap(SubSeq(jwks, 1, n - 1), alg), jwks[n].kid, importKey(jwks[n], alg))

SigAlg(s) == IF FamilyOf(s) = "RSA" THEN "RSA-PSS" ELSE "ECDSA"
EncAlg(s) == IF FamilyOf(s) = "RSA" THEN "RSA-OAEP" ELSE "ECDH"

\* what create gives back: an instance, or the error it threw
NoInstance == [instance |-> "none"]
IsInstance(x) == "privateKey" \in DOMAIN x
CreateError(message) == [error |-> message]

\* A comparison of the key types in place of the curves.
OtherCurve_ByKeyType(jwk, privateJwk) == jwk.kty # privateJwk.kty

\* ECSealer.create / ECUnsealer.create: jwk.crv !== privateJwk.crv
OtherCurve(jwk, privateJwk) == jwk.crv # privateJwk.crv

\* the loop over the keys given meets a key of another curve
CurveMismatch(privateJwk, jwks) ==
    \E j \in 1..Len(jwks) : OtherCurve(jwks[j], privateJwk)

\* new ECSealer(privateKey, privateJwk.kid, recipientKeyMap) and its like
SealerInstance(privateKey, privateKid, keys) ==
    [privateKey |-> privateKey, privateKid |-> privateKid, recipientKeys |-> keys]
UnsealerInstance(privateKey, privateKid, keys) ==
    [privateKey |-> privateKey, privateKid |-> privateKid, senderKeys |-> keys]

\* RSASealer.create / ECSealer.create, from call to return
SealerCreate(privateJwk, recipientJwks, s) ==
    IF FamilyOf(s) = "EC" /\ CurveMismatch(privateJwk, recipientJwks)
    THEN CreateError(<<"All keys must use the same curve">>)
    ELSE SealerInstance(importKey(privateJwk, SigAlg(s)), privateJwk.kid,
                        KeyMap(recipientJwks, EncAlg(s)))

\* RSAUnsealer.create / ECUnsealer.create, from call to return
UnsealerCreate(privateJwk, senderJwks, s) ==
    IF FamilyOf(s) = "EC" /\ CurveMismatch(privateJwk, senderJwks)
    THEN CreateError(<<"All keys must use the same curve">>)
    ELSE UnsealerInstance(importKey(privateJwk, EncAlg(s)), privateJwk.kid,
                          KeyMap(senderJwks, SigAlg(s)))

\* a create call: its arguments, the importKey calls it has made (n; the
\* last of them is awaited while pc = "importKey"), the private key and the
\* key map as far as they are built, and what it gave back
Creators == {"alice", "bob", "carol"}
NoJWK == [kid |-> "", kty |-> "", crv |-> "none", mat |-> <<>>, priv |-> FALSE]
IdleCreate ==
    [pc |-> "idle", kind |-> "", privateJwk |-> NoJWK, jwks |-> <<>>, form |-> "",
     n |-> 0, privateKey |-> NoKey, keys |-> [k \in {} |-> NoKey],
     result |-> NoInstance, error |-> <<>>]

\* create up to its first await: importKey of the private key is called
createEnter(kind, privateJwk, jwks, form) ==
    [IdleCreate EXCEPT !.pc = "importKey", !.kind = kind, !.privateJwk = privateJwk,
                       !.jwks = jwks, !.form = form, !.n = 1]

\* The importKey a create call awaits settles and create runs on to its next
\* await: the key imported is kept (the private key, or the key of the
\* descriptor just imported under its kid); then the loop takes the next
\* descriptor, throws when an EC create finds it on another curve and calls
\* importKey for it otherwise; behind the last descriptor the instance is
\* returned.
createImported(call, s) ==
    LET i == call.n - 1
        privateAlg == IF call.kind = "Sealer" THEN SigAlg(s) ELSE EncAlg(s)
        keyAlg == IF call.kind = "Sealer" THEN EncAlg(s) ELSE SigAlg(s)
        privateKey == IF i = 0 THEN importKey(call.privateJwk, privateAlg)
                      ELSE call.privateKey
        keys == IF i = 0 THEN call.keys
                ELSE MapSet(call.keys, call.jwks[i].kid, importKey(call.jwks[i], keyAlg))
        held == [call EXCEPT !.privateKey = privateKey, !.keys = keys]
    IN  IF i = Len(call.jwks)
        THEN [held EXCEPT !.pc = "done",
                          !.result = IF call.kind = "Sealer"
                                     THEN SealerInstance(privateKey, call.privateJwk.kid, keys)
                                     ELSE UnsealerInstance(privateKey, call.privateJwk.kid, keys)]
        ELSE IF FamilyOf(s) = "EC" /\ OtherCurve(call.jwks[i + 1], call.privateJwk)
        THEN [held EXCEPT !.pc = "failed",
                          !.error = <<"All keys must use the same curve">>]
        ELSE [held EXCEPT !.n = call.n + 1]

-----------------------------------------------------------------------------
(* Plaintexts *)

\* the characters of string plaintexts (code points) and the bytes of binary ones
Chars == {65, 233}
Bytes == {65}

RECURSIVE SeqsUpTo(_, _)
SeqsUpTo(S, n) ==
    IF n = 0 THEN {<<>>}
    ELSE LET shorter == SeqsUpTo(S, n - 1)
         IN  shorter \cup {Append(q, x) : q \in shorter, x \in S}

\* string | Uint8Array
Plaintexts ==
    {[str |-> TRUE, v |-> q] : q \in SeqsUpTo(Chars, MaxLen)}
        \cup {[str |-> FALSE, v |-> q] : q \in SeqsUpTo(Bytes, MaxLen)}

\* new TextEncoder().encode(s): UTF-8 of code points below 2048
RECURSIVE TextEncode(_)
TextEncode(s) ==
    IF s = <<>> THEN <<>>
    ELSE LET c == Head(s)
         IN  (IF c < 128 THEN <<c>> ELSE <<192 + (c \div 64), 128 + (c % 64)>>)
                 \o TextEncode(Tail(s))

\* encryptPayload: typeof plaintext === "string" ? encode(plaintext) : plaintext
plaintextBytes(p) == IF p.str THEN TextEncode(p.v) ELSE p.v

-----------------------------------------------------------------------------
(* Byte strings made by the provider.  mod = 0: the bytes as they were made; *)
(* mod > 0: some of them were changed afterwards.                           *)

\* crypto.subtle.encrypt({name: "AES-GCM", iv}, cek, bytes) behind its IV:
\* IV || ciphertext || tag.  open lists the keys under which the tag verifies
\* and what each decrypts to; encryption yields exactly one such key.
AesGcmEncrypt(cek, iv, bytes) ==
    [tag |-> "gcm", iv |-> iv, open |-> {[key |-> cek, pt |-> bytes]},
     len |-> IvLength + Len(bytes) + GcmTagLength, mod |-> 0]

\* A provider that verifies whatever is behind the IV, however short.
AesGcmOpens_AnyLength(blob, cek) ==
    /\ blob.tag = "gcm"
    /\ blob.mod = 0
    /\ \E o \in blob.open : o.key = cek

\* crypto.subtle.decrypt({name: "AES-GCM", iv}, cek, ciphertext || tag): the
\* bytes behind the IV hold a whole tag, and the tag verifies under cek
AesGcmOpens(blob, cek) ==
    /\ blob.tag = "gcm"
    /\ blob.mod = 0
    /\ (IF blob.len > IvLength THEN blob.len - IvLength ELSE 0) >= GcmTagLength
    /\ \E o \in blob.open : o.key = cek

AesGcmDecrypt(blob, cek) == (CHOOSE o \in blob.open : o.key = cek).pt

\* encryptCEKWithRSA: exportKey("raw", cek), encrypt({name: "RSA-OAEP"})
RsaOaepEncrypt(cek, recipientKey) ==
    [tag |-> "oaep", to |-> recipientKey.id, cek |-> cek,
     len |-> RsaBlockLength, mod |-> 0]

\* ECDH deriveKey: both sides derive the same key from one's private and the
\* other's public half, on one curve.
DeriveKey(ephemeralId, staticId) == <<"dh">> \o ephemeralId \o staticId

\* encryptCEK, ECDH branch: ephemeralPublicKeyRaw || IV || wrapKey(cek)
EcdhWrap(cek, recipientKey, ephemeralId, iv) ==
    [tag |-> "ecdh", eph |-> ephemeralId, crv |-> recipientKey.crv,
     ephLen |-> RawPublicKeyLength(recipientKey.crv), iv |-> iv,
     secret |-> DeriveKey(ephemeralId, recipientKey.id), cek |-> cek,
     len |-> RawPublicKeyLength(recipientKey.crv) + IvLength + CekLength + GcmTagLength,
     mod |-> 0]

\* crypto.subtle.sign with RSA-PSS (saltLength 32) or ECDSA (SHA-256)
SignatureLength(key) ==
    IF key.alg = "RSA-PSS" THEN RsaBlockLength ELSE EcdsaSignatureLength(key.crv)

Sign(message, senderKey) ==
    [tag |-> "sig", alg |-> senderKey.alg, signer |-> senderKey.id,
     msg |-> message, len |-> SignatureLength(senderKey), mod |-> 0]

\* crypto.subtle.verify: true only for the unchanged signature of this very
\* message under the private half of this key.
Verify(message, signatureBytes, senderPublicKey) ==
    /\ signatureBytes.tag = "sig"
    /\ signatureBytes.mod = 0
    /\ signatureBytes.alg = senderPublicKey.alg
    /\ signatureBytes.signer = senderPublicKey.id
    /\ signatureBytes.msg = message

\* crypto.subtle.digest("SHA-256", input)
Sha256(input) == [tag |-> "sha256", input |-> input, len |-> DigestLength, mod |-> 0]

\* the bytes with some of them changed
Modified(blob) == [blob EXCEPT !.mod = 1]

-----------------------------------------------------------------------------
(* Base64 text.  The last character of a text whose byte length is not a    *)
(* multiple of 3 carries 4 or 2 bits that belong to no byte (slack); the    *)
(* encoder writes them as 0 and the decoder drops them.                    *)

SlackBits(len) == IF len % 3 = 1 THEN 4 ELSE IF len % 3 = 2 THEN 2 ELSE 0

\* Buffer.from(bytes).toString("base64")
toBase64(blob) == [b |-> blob, slack |-> 0]

\* a member a record does not have (envelope.cek[recipientKid])
Undefined == [undefined |-> TRUE]
IsUndefined(t) == "undefined" \in DOMAIN t

\* base64ToUint8Array(text)
base64ToUint8Array(text) == text.b

\* JSON canonical form (RFC 8785) of the signed object: members in a fixed
\* order whatever order they were written in; a record is that already.
canonicalize(data) == [m \in DOMAIN data |-> data[m]]

-----------------------------------------------------------------------------
(* Envelopes *)

NoEnvelope == [none |-> TRUE]
IsEnvelope(e) == "kid" \in DOMAIN e

NoBlob == [tag |-> "none", len |-> 0, mod |-> 0]
NoKeys == [k \in {} |-> NoKey]
NoCEKs == [k \in {} |-> Undefined]

\* CTX_CONSTANT_STRING, the domain separator of the commitment
CTX_CONSTANT_STRING == "CTX_CONSTANT_STRING"

\* TextEncoder().encode(CTX_CONSTANT_STRING).length
separatorLength == Len(CTX_CONSTANT_STRING)

\* Uint8Array.subarray(begin, end) of an array of length n: a negative index
\* counts from the end, and both are clamped to 0..n
relativeIndex(n, k) ==
    IF k < 0 THEN (IF n + k < 0 THEN 0 ELSE n + k) ELSE (IF k < n THEN k ELSE n)
subarray(n, begin, end) ==
    LET first == relativeIndex(n, begin)
        final == relativeIndex(n, end)
    IN  [from |-> first, len |-> IF final > first THEN final - first ELSE 0]

\* new Uint8Array(separator.length + iv.length + (encrypted.length - 28)
\*                + gcmTag.length)
ctxInputLength(sepLen, n) ==
    sepLen + subarray(n, 0, IvLength).len + (n - (IvLength + GcmTagLength))
        + subarray(n, 0 - GcmTagLength, n).len

\* the four ctxInput.set(source, offset) calls of sealCore and unsealCore, in
\* order: what is written (len bytes of src from index from) and where (at)
ctxWrites(sepLen, n) ==
    LET iv == subarray(n, 0, IvLength)
        gcmTag == subarray(n, 0 - GcmTagLength, n)
        ciphertext == subarray(n, IvLength, 0 - GcmTagLength)
    IN  << [src |-> "sep", from |-> 0, len |-> sepLen, at |-> 0],
           [src |-> "enc", from |-> iv.from, len |-> iv.len, at |-> sepLen],
           [src |-> "enc", from |-> ciphertext.from, len |-> ciphertext.len,
            at |-> sepLen + iv.len],
           [src |-> "enc", from |-> gcmTag.from, len |-> gcmTag.len,
            at |-> sepLen + iv.len + (n - (IvLength + GcmTagLength))] >>

\* RangeError: an array of negative length, or a set that does not fit
ctxLayoutThrows(sepLen, n) ==
    \/ ctxInputLength(sepLen, n) < 0
    \/ \E j \in 1..4 :
          LET w == ctxWrites(sepLen, n)[j]
          IN  w.at < 0 \/ w.at + w.len > ctxInputLength(sepLen, n)

\* A ctxInput into which the ciphertext is never copied.
ctxLayout_NoCiphertext(sepLen, n) ==
    LET writes == ctxWrites(sepLen, n)
    IN  [p \in 1..ctxInputLength(sepLen, n) |->
            LET over == {j \in {1, 2, 4} : writes[j].at < p /\ p <= writes[j].at + writes[j].len}
            IN  IF over = {} THEN <<"zero", 0>>
                ELSE LET j == CHOOSE m \in over : \A o \in over : m >= o
                     IN  <<writes[j].src, writes[j].from + (p - 1 - writes[j].at)>>]

\* the bytes of ctxInput after the four writes: each position holds the byte
\* written there last, or zero
ctxLayout(sepLen, n) ==
    LET writes == ctxWrites(sepLen, n)
    IN  [p \in 1..ctxInputLength(sepLen, n) |->
            LET over == {j \in 1..4 : writes[j].at < p /\ p <= writes[j].at + writes[j].len}
            IN  IF over = {} THEN <<"zero", 0>>
                ELSE LET j == CHOOSE m \in over : \A o \in over : m >= o
                     IN  <<writes[j].src, writes[j].from + (p - 1 - writes[j].at)>>]

\* the separator followed by all of the encrypted bytes in order
InOrder(sepLen, n) ==
    [p \in 1..(sepLen + n) |-> IF p <= sepLen THEN <<"sep", p - 1>> ELSE <<"enc", p - 1 - sepLen>>]

\* the longest payload there is: an IV, the UTF-8 bytes of MaxLen + 1
\* characters of two bytes each, and a tag
MaxPayloadLength == IvLength + 2 * (MaxLen + 1) + GcmTagLength

\* what the arithmetic above does to a payload of each length, worked out
\* once: whether it throws and, if not, the bytes laid out (<<>> when they are
\* the separator followed by the payload in order)
ctxLayouts ==
    [n \in 0..MaxPayloadLength |->
        IF ctxLayoutThrows(separatorLength, n)
        THEN [throws |-> TRUE, layout |-> <<>>]
        ELSE [throws |-> FALSE,
              layout |-> IF ctxLayout(separatorLength, n) = InOrder(separatorLength, n)
                         THEN <<>>
                         ELSE ctxLayout(separatorLength, n)]]

ctxInputThrows(encrypted) == ctxLayouts[encrypted.len].throws

\* sealCore / unsealCore: separator, IV, ciphertext and tag, cut out of the
\* encrypted payload at 12 and at -16 and written into ctxInput.  The value
\* names the separator, the encrypted bytes and how they are laid out.
ctxInput(encrypted) ==
    [separator |-> CTX_CONSTANT_STRING, body |-> encrypted,
     layout |-> ctxLayouts[encrypted.len].layout]

-----------------------------------------------------------------------------
(* The Temporal payload codec, KeySealedEnvelopeECCodec / ...RSACodec: its   *)
(* byte arrays, its payloads and the promises it awaits                     *)

\* "binary/key-sealed-envelope", as the code points of its characters
ENCODING ==
    <<98, 105, 110, 97, 114, 121, 47, 107, 101, 121, 45, 115, 101, 97, 108, 101, 100,
      45, 101, 110, 118, 101, 108, 111, 112, 101>>
METADATA_ENCODING_KEY == "encoding"

\* Byte arrays of the codec layer: the bytes themselves (raw; v), or the
\* UTF-8 bytes of the JSON text of an envelope (json; doc: the object the
\* text parses to; broken: the text no longer parses).
Raw(v) == [tag |-> "raw", v |-> v, doc |-> NoEnvelope, broken |-> FALSE]
EmptyBytes == Raw(<<>>)

\* new TextEncoder().encode(text)
TextEncoderEncode(text) == Raw(TextEncode(text))

\* new TextEncoder().encode(JSON.stringify(envelope))
JsonStringify(envelope) ==
    [tag |-> "json", v |-> <<>>, doc |-> envelope, broken |-> FALSE]

\* U+FFFD, which the decoder writes for bytes that are not UTF-8
ReplacementCharacter == 65533
ByteOrderMark == 65279

\* The UTF-8 decoder: a lead byte says how many continuation bytes follow
\* and between which bounds the first of them lies; a byte that does not
\* fit ends the sequence with U+FFFD and is read again as a lead byte.
RECURSIVE Utf8Decode(_, _), Utf8Continue(_, _, _, _, _, _)
Utf8Continue(v, j, needed, lower, upper, codePoint) ==
    IF needed = 0 THEN <<codePoint>> \o Utf8Decode(v, j)
    ELSE IF j > Len(v) THEN <<ReplacementCharacter>>
    ELSE IF v[j] < lower \/ v[j] > upper
    THEN <<ReplacementCharacter>> \o Utf8Decode(v, j)
    ELSE Utf8Continue(v, j + 1, needed - 1, 128, 191, codePoint * 64 + (v[j] - 128))

Utf8Decode(v, i) ==
    IF i > Len(v) THEN <<>>
    ELSE LET b == v[i]
         IN  IF b < 128 THEN <<b>> \o Utf8Decode(v, i + 1)
             ELSE IF b >= 194 /\ b <= 223
             THEN Utf8Continue(v, i + 1, 1, 128, 191, b - 192)
             ELSE IF b >= 224 /\ b <= 239
             THEN Utf8Continue(v, i + 1, 2, IF b = 224 THEN 160 ELSE 128,
                               IF b = 237 THEN 159 ELSE 191, b - 224)
             ELSE IF b >= 240 /\ b <= 244
             THEN Utf8Continue(v, i + 1, 3, IF b = 240 THEN 144 ELSE 128,
                               IF b = 244 THEN 143 ELSE 191, b - 240)
             ELSE <<ReplacementCharacter>> \o Utf8Decode(v, i + 1)

\* new TextDecoder().decode(bytes): the code points of the text, without the
\* byte order mark when the bytes begin with one
TextDecoderDecode(v) ==
    LET text == Utf8Decode(v, 1)
    IN  IF text # <<>> /\ Head(text) = ByteOrderMark THEN Tail(text) ELSE text

-----------------------------------------------------------------------------
(* JSON.parse of a text given as code points *)

NoJson == [json |-> "none"]
JsonFails == [ok |-> FALSE, next |-> 0, val |-> NoJson]
JsonIs(next, val) == [ok |-> TRUE, next |-> next, val |-> val]

IsJsonWhitespace(c) == c \in {32, 9, 10, 13}
IsDigit(c) == c >= 48 /\ c <= 57
IsHexDigit(c) == IsDigit(c) \/ (c >= 65 /\ c <= 70) \/ (c >= 97 /\ c <= 102)
HexValue(c) == IF IsDigit(c) THEN c - 48 ELSE IF c >= 97 THEN c - 87 ELSE c - 55

At(t, i) == IF i >= 1 /\ i <= Len(t) THEN t[i] ELSE 0 - 1

RECURSIVE SkipWhitespace(_, _)
SkipWhitespace(t, i) ==
    IF IsJsonWhitespace(At(t, i)) THEN SkipWhitespace(t, i + 1) ELSE i

RECURSIVE SkipDigits(_, _)
SkipDigits(t, i) == IF IsDigit(At(t, i)) THEN SkipDigits(t, i + 1) ELSE i

\* a number at i: -? int frac? exp?; the place behind it, or 0
JsonNumberEnd(t, i) ==
    LET first == IF At(t, i) = 45 THEN i + 1 ELSE i
        int == IF At(t, first) = 48 THEN first + 1
               ELSE IF IsDigit(At(t, first)) THEN SkipDigits(t, first)
               ELSE 0
        frac == IF int = 0 THEN 0
                ELSE IF At(t, int) # 46 THEN int
                ELSE IF IsDigit(At(t, int + 1)) THEN SkipDigits(t, int + 1)
                ELSE 0
        sign == IF At(t, frac + 1) \in {43, 45} THEN frac + 2 ELSE frac + 1
    IN  IF frac = 0 THEN 0
        ELSE IF At(t, frac) \notin {69, 101} THEN frac
        ELSE IF IsDigit(At(t, sign)) THEN SkipDigits(t, sign)
        ELSE 0

\* the characters of a string behind its opening quote, escapes resolved
RECURSIVE JsonStringBody(_, _, _)
JsonStringBody(t, i, read) ==
    LET c == At(t, i)
        e == At(t, i + 1)
    IN  IF c < 32 THEN JsonFails
        ELSE IF c = 34 THEN JsonIs(i + 1, [json |-> "string", s |-> read])
        ELSE IF c # 92 THEN JsonStringBody(t, i + 1, Append(read, c))
        ELSE IF e \in {34, 92, 47} THEN JsonStringBody(t, i + 2, Append(read, e))
        ELSE IF e = 98 THEN JsonStringBody(t, i + 2, Append(read, 8))
        ELSE IF e = 102 THEN JsonStringBody(t, i + 2, Append(read, 12))
        ELSE IF e = 110 THEN JsonStringBody(t, i + 2, Append(read, 10))
        ELSE IF e = 114 THEN JsonStringBody(t, i + 2, Append(read, 13))
        ELSE IF e = 116 THEN JsonStringBody(t, i + 2, Append(read, 9))
        ELSE IF e = 117 /\ \A d \in 2..5 : IsHexDigit(At(t, i + d))
        THEN JsonStringBody(t, i + 6,
                 Append(read, HexValue(t[i + 2]) * 4096 + HexValue(t[i + 3]) * 256
                                  + HexValue(t[i + 4]) * 16 + HexValue(t[i + 5])))
        ELSE JsonFails

IsLiteral(t, i, word) ==
    \A j \in 1..Len(word) : At(t, i + j - 1) = word[j]

\* a value at i; the elements of an array behind "[" or ","; the members of
\* an object behind "{" or ","
RECURSIVE JsonValue(_, _), JsonElements(_, _, _), JsonMembers(_, _, _)
JsonValue(t, i) ==
    LET c == At(t, i)
        open == SkipWhitespace(t, i + 1)
    IN  IF c = 110 /\ IsLiteral(t, i, <<110, 117, 108, 108>>)
        THEN JsonIs(i + 4, [json |-> "null"])
        ELSE IF c = 116 /\ IsLiteral(t, i, <<116, 114, 117, 101>>)
        THEN JsonIs(i + 4, [json |-> "boolean", b |-> TRUE])
        ELSE IF c = 102 /\ IsLiteral(t, i, <<102, 97, 108, 115, 101>>)
        THEN JsonIs(i + 5, [json |-> "boolean", b |-> FALSE])
        ELSE IF c = 34 THEN JsonStringBody(t, i + 1, <<>>)
        ELSE IF c = 91
        THEN IF At(t, open) = 93 THEN JsonIs(open + 1, [json |-> "array", items |-> <<>>])
             ELSE JsonElements(t, open, <<>>)
        ELSE IF c = 123
        THEN IF At(t, open) = 125
             THEN JsonIs(open + 1, [json |-> "object", members |-> <<>>])
             ELSE JsonMembers(t, open, <<>>)
        ELSE IF JsonNumberEnd(t, i) # 0
        THEN JsonIs(JsonNumberEnd(t, i),
                    [json |-> "number", digits |-> SubSeq(t, i, JsonNumberEnd(t, i) - 1)])
        ELSE JsonFails

JsonElements(t, i, read) ==
    LET item == JsonValue(t, i)
        behind == SkipWhitespace(t, item.next)
    IN  IF ~item.ok THEN JsonFails
        ELSE IF At(t, behind) = 93
        THEN JsonIs(behind + 1, [json |-> "array", items |-> Append(read, item.val)])
        ELSE IF At(t, behind) = 44
        THEN JsonElements(t, SkipWhitespace(t, behind + 1), Append(read, item.val))
        ELSE JsonFails

JsonMembers(t, i, read) ==
    LET key == IF At(t, i) = 34 THEN JsonStringBody(t, i + 1, <<>>) ELSE JsonFails
        colon == SkipWhitespace(t, key.next)
        item == IF key.ok /\ At(t, colon) = 58
                THEN JsonValue(t, SkipWhitespace(t, colon + 1))
                ELSE JsonFails
        behind == SkipWhitespace(t, item.next)
        member == [key |-> key.val.s, val |-> item.val]
    IN  IF ~item.ok THEN JsonFails
        ELSE IF At(t, behind) = 125
        THEN JsonIs(behind + 1, [json |-> "object", members |-> Append(read, member)])
        ELSE IF At(t, behind) = 44
        THEN JsonMembers(t, SkipWhitespace(t, behind + 1), Append(read, member))
        ELSE JsonFails

\* JSON.parse(text): one value with whitespace around it and nothing else
JsonText(t) ==
    LET value == JsonValue(t, SkipWhitespace(t, 1))
    IN  IF value.ok /\ SkipWhitespace(t, value.next) = Len(t) + 1
        THEN value
        ELSE JsonFails

\* JSON.parse(new TextDecoder().decode(data)) throws a SyntaxError
JsonParseThrows(bytes) ==
    IF bytes.tag = "json" THEN bytes.broken
    ELSE ~JsonText(TextDecoderDecode(bytes.v)).ok

\* what it returns otherwise: the envelope of a JSON text a codec wrote, or
\* the value the bytes spell
JsonParse(bytes) ==
    IF bytes.tag = "json" THEN bytes.doc
    ELSE JsonText(TextDecoderDecode(bytes.v)).val

-----------------------------------------------------------------------------
(* Payloads *)

\* a Payload: metadata and data may each be absent (undefined or null)
NoMetadata == [has |-> FALSE, map |-> [k \in {} |-> EmptyBytes]]
NoData == [has |-> FALSE, bytes |-> EmptyBytes]
Metadata(map) == [has |-> TRUE, map |-> map]
Data(bytes) == [has |-> TRUE, bytes |-> bytes]
NoPayload == [metadata |-> NoMetadata, data |-> NoData]

\* temporal.api.common.v1.Payload.encode(payload).finish(): a field for the
\* metadata map and a field for the data, each written when present
PayloadEncode(payload) ==
    (IF payload.metadata.has
     THEN <<[field |-> "metadata", map |-> payload.metadata.map, bytes |-> EmptyBytes]>>
     ELSE <<>>)
    \o (IF payload.data.has
        THEN <<[field |-> "data", map |-> NoMetadata.map, bytes |-> payload.data.bytes]>>
        ELSE <<>>)

\* temporal.api.common.v1.Payload.decode(bytes): a field that was not
\* written reads as its default, the empty map and the empty byte array
PayloadDecode(fields) ==
    LET at(name) == {j \in 1..Len(fields) : fields[j].field = name}
    IN  [metadata |-> Metadata(IF at("metadata") = {} THEN NoMetadata.map
                               ELSE fields[CHOOSE j \in at("metadata") : TRUE].map),
         data |-> Data(IF at("data") = {} THEN EmptyBytes
                       ELSE fields[CHOOSE j \in at("data") : TRUE].bytes)]

\* the options of a codec: the kids of recipientPublicKeys.keys and of
\* senderPublicKeys.keys in order, and the key set the sender keys are of
CodecRecipientJwks(options) ==
    [j \in 1..Len(options.recipients) |-> EncryptionJWK(options.recipients[j], suite, FALSE)]
CodecSenderJwks(options) ==
    [j \in 1..Len(options.senders) |->
        SigningJWK(options.senders[j], options.senderSuite, FALSE)]

\* the seal call of the payload at each place of an encode call, and the
\* unseal call of the payload at each place of a decode call
CallOfPosition == <<"s1", "s2">>
UnsealOfPosition == <<"u1", "u2", "u3">>

\* what the callback of encode returns for the envelope of its payload
encodedPayload(envelope) ==
    [metadata |-> Metadata([k \in {METADATA_ENCODING_KEY} |-> TextEncoderEncode(ENCODING)]),
     data |-> Data(JsonStringify(envelope))]

\* payload.metadata?.[METADATA_ENCODING_KEY]
encodingOf(payload) ==
    IF payload.metadata.has /\ METADATA_ENCODING_KEY \in DOMAIN payload.metadata.map
    THEN payload.metadata.map[METADATA_ENCODING_KEY]
    ELSE Undefined

\* !encoding || new TextDecoder().decode(encoding) !== ENCODING; the JSON
\* text of an envelope is not that string
NotOurEncoding(payload) ==
    \/ IsUndefined(encodingOf(payload))
    \/ encodingOf(payload).tag # "raw"
    \/ TextDecoderDecode(encodingOf(payload).v) # ENCODING

\* the callback of decode returns the payload as it is
PassesThrough(payload) == NotOurEncoding(payload) \/ ~payload.data.has

-----------------------------------------------------------------------------
(* encode and decode: the create call, the callbacks of payloads.map and    *)
(* Promise.all                                                              *)

\* a codec call: awaiting create (pc = "create"), awaiting Promise.all
\* (pc = "all"), returned (done) or rejected (failed).  created: create
\* returned an instance; unsealed: the places whose callback called
\* Unsealer.unseal; threw: the places whose callback threw in JSON.parse.
IdleCodecCall ==
    [pc |-> "idle", who |-> "", input |-> <<>>, result |-> <<>>, unsealed |-> {},
     threw |-> {}, created |-> FALSE]

codecEnter(who, payloads) ==
    [IdleCodecCall EXCEPT !.pc = "create", !.who = who, !.input = payloads]

\* the promise of a callback of encode, by the seal call it awaits
encodeCallback(sealCall) ==
    IF sealCall.pc = "done"
    THEN [pc |-> "fulfilled", value |-> encodedPayload(sealCall.result)]
    ELSE IF sealCall.pc = "failed" THEN [pc |-> "rejected", value |-> NoPayload]
    ELSE [pc |-> "pending", value |-> NoPayload]

\* the promise of the callback of decode at place i, by the unseal call it
\* awaits when it called one
decodeCallback(call, i, unsealCall) ==
    IF i \in call.threw THEN [pc |-> "rejected", value |-> NoPayload]
    ELSE IF i \notin call.unsealed THEN [pc |-> "fulfilled", value |-> call.input[i]]
    ELSE IF unsealCall.pc = "done"
    THEN [pc |-> "fulfilled", value |-> PayloadDecode(unsealCall.result)]
    ELSE IF unsealCall.pc = "failed" THEN [pc |-> "rejected", value |-> NoPayload]
    ELSE [pc |-> "pending", value |-> NoPayload]

\* A join that waits for every promise and returns what each one gave.
PromiseAll_Settled(each) ==
    IF \E i \in DOMAIN each : each[i].pc = "pending"
    THEN [pc |-> "all", result |-> <<>>]
    ELSE [pc |-> "done", result |-> [i \in DOMAIN each |-> each[i].value]]

\* Promise.all of the callbacks' promises: rejected as soon as one of them
\* is, fulfilled with the values in the order of the input once all are
PromiseAll(each) ==
    IF \E i \in DOMAIN each : each[i].pc = "rejected"
    THEN [pc |-> "failed", result |-> <<>>]
    ELSE IF \A i \in DOMAIN each : each[i].pc = "fulfilled"
    THEN [pc |-> "done", result |-> [i \in DOMAIN each |-> each[i].value]]
    ELSE [pc |-> "all", result |-> <<>>]

\* a codec call that awaits Promise.all returns or rejects when that settles
codecSettled(call, out) ==
    IF call.pc = "all" THEN [call EXCEPT !.pc = out.pc, !.result = out.result]
    ELSE call

-----------------------------------------------------------------------------
(* The codec server: the Fastify plugin with its routes /decode and /encode *)

\* the base64 digits (0..63) of a byte sequence: three bytes give four
\* digits, a last byte alone two, the last two bytes three
RECURSIVE base64Digits(_)
base64Digits(v) ==
    IF v = <<>> THEN <<>>
    ELSE IF Len(v) = 1 THEN <<v[1] \div 4, (v[1] % 4) * 16>>
    ELSE IF Len(v) = 2
    THEN <<v[1] \div 4, (v[1] % 4) * 16 + v[2] \div 16, (v[2] % 16) * 4>>
    ELSE <<v[1] \div 4, (v[1] % 4) * 16 + v[2] \div 16,
           (v[2] % 16) * 4 + v[3] \div 64, v[3] % 64>>
             \o base64Digits(SubSeq(v, 4, Len(v)))

\* the bytes of a sequence of base64 digits; the bits of the last digit that
\* fill no byte are dropped
RECURSIVE base64Bytes(_)
base64Bytes(d) ==
    IF Len(d) < 2 THEN <<>>
    ELSE IF Len(d) = 2 THEN <<d[1] * 4 + d[2] \div 16>>
    ELSE IF Len(d) = 3
    THEN <<d[1] * 4 + d[2] \div 16, (d[2] % 16) * 16 + d[3] \div 4>>
    ELSE <<d[1] * 4 + d[2] \div 16, (d[2] % 16) * 16 + d[3] \div 4, (d[3] % 4) * 64 + d[4]>>
             \o base64Bytes(SubSeq(d, 5, Len(d)))

\* Buffer.from(bytes).toString("base64"): the digits, and the number of "="
\* behind them
BufferToString(bytes) ==
    [b64 |-> [bytes EXCEPT !.v = base64Digits(@)], pad |-> (3 - (Len(bytes.v) % 3)) % 3]
\* Buffer.from(text, "base64")
BufferFrom(text) == [text.b64 EXCEPT !.v = base64Bytes(@)]
\* the string of no characters, which is falsy
IsEmptyString(text) == text.b64 = EmptyBytes /\ text.pad = 0

\* fromJSON: a metadata object becomes a map of buffers, else null; a data
\* string that is truthy becomes a buffer, else null
fromJSON(json) ==
    [metadata |-> IF json.metadata.has
                  THEN Metadata([k \in DOMAIN json.metadata.map |->
                                    BufferFrom(json.metadata.map[k])])
                  ELSE NoMetadata,
     data |-> IF json.data.has /\ ~IsEmptyString(json.data.text)
              THEN Data(BufferFrom(json.data.text))
              ELSE NoData]

\* toJSON: the same the other way; a byte array is truthy also when empty
toJSON(payload) ==
    [metadata |-> IF payload.metadata.has
                  THEN [has |-> TRUE,
                        map |-> [k \in DOMAIN payload.metadata.map |->
                                    BufferToString(payload.metadata.map[k])]]
                  ELSE [has |-> FALSE, map |-> [k \in {} |-> BufferToString(EmptyBytes)]],
     data |-> IF payload.data.has
              THEN [has |-> TRUE, text |-> BufferToString(payload.data.bytes)]
              ELSE [has |-> FALSE, text |-> BufferToString(EmptyBytes)]]

\* a request body: {payloads: [...]}, or a body without payloads
Body(payloads) == [has |-> TRUE, payloads |-> payloads]
MalformedBody == [has |-> FALSE, payloads |-> <<>>]

\* a request: the route, the party whose server it reached, its body and the
\* response, which is Pending while the handler awaits the codec
Pending == [status |-> 0, payloads |-> <<>>, error |-> ""]
InternalServerError == [status |-> 500, payloads |-> <<>>, error |-> "Internal server error"]
NoReply == [route |-> "", who |-> "", body |-> MalformedBody, response |-> Pending]

\* A handler that blames the client for a body it cannot read.
routeCatch_BadRequest(body) ==
    IF ~body.has
    THEN [status |-> 400, payloads |-> <<>>, error |-> "Bad request"]
    ELSE InternalServerError

\* the catch of both handlers: whatever was thrown in the try, the answer is
\* reply.status(500).send({error: "Internal server error"})
routeCatch(body) == InternalServerError

\* reply.send({payloads}) of the payloads the codec returned, through toJSON
replySend(payloads) ==
    [status |-> 200,
     payloads |-> [i \in 1..Len(payloads) |-> toJSON(payloads[i])],
     error |-> ""]

\* raw.map(fromJSON) of the body of a request
requestPayloads(body) == [i \in 1..Len(body.payloads) |-> fromJSON(body.payloads[i])]

\* a handler up to its first await: a body without payloads throws in
\* raw.map and is answered by the catch; else the codec is called
routeEnter(route, who, body) ==
    [route |-> route, who |-> who, body |-> body,
     response |-> IF body.has THEN Pending ELSE routeCatch(body)]

\* the handler of the route behind its await of the codec call: the reply
\* is sent when the call has returned, the catch answers when it rejected
routeSettled(reply, route, call) ==
    IF reply.route = route /\ reply.response = Pending /\ call.pc \in {"done", "failed"}
    THEN [reply EXCEPT !.response = IF call.pc = "done" THEN replySend(call.result)
                                    ELSE routeCatch(reply.body)]
    ELSE reply

\* the seal calls of an encode call have moved: Promise.all is looked at
\* again, and with it the handler that awaits the call
encodeSettled(c, calls) ==
    LET call == c.encodeCall
        each == [i \in 1..Len(call.input) |-> encodeCallback(calls[CallOfPosition[i]])]
    IN  IF call.pc # "all" THEN c
        ELSE [c EXCEPT !.encodeCall = codecSettled(call, PromiseAll(each)),
                       !.reply = routeSettled(@, "encode",
                                              codecSettled(call, PromiseAll(each)))]

\* the unseal calls of a decode call have moved
decodeSettled(c, calls) ==
    LET call == c.decodeCall
        each == [i \in 1..Len(call.input) |->
                    decodeCallback(call, i, calls[UnsealOfPosition[i]])]
    IN  IF call.pc # "all" THEN c
        ELSE [c EXCEPT !.decodeCall = codecSettled(call, PromiseAll(each)),
                       !.reply = routeSettled(@, "decode",
                                              codecSettled(call, PromiseAll(each)))]

-----------------------------------------------------------------------------
(* Sealer.seal and sealCore *)

SealIds == {"s1"}

\* the lists of recipient ids a caller may pass
RecipientLists == SeqsUpTo(Recipients \cup Strangers \cup {PrototypeKid}, MaxRecipients)

IdleSeal ==
    [pc |-> "idle", api |-> "", requested |-> <<>>,
     payload |-> [str |-> FALSE, v |-> <<>>],
     senderKey |-> NoKey, senderKid |-> "", order |-> <<>>, recipientKeys |-> NoKeys,
     i |-> 0, w |-> 0, cek |-> <<>>, encryptedPayload |-> NoBlob, encryptedCEKs |-> NoCEKs,
     result |-> NoEnvelope, error |-> <<>>, log |-> <<>>]

Range(q) == {q[j] : j \in 1..Len(q)}

\* the decimal digits in their order, and the text of the greatest array
\* index, 2^32 - 2
DecimalDigits == <<"0", "1", "2", "3", "4", "5", "6", "7", "8", "9">>
GreatestArrayIndex == "4294967294"

IsDecimalDigit(ch) == \E d \in 1..Len(DecimalDigits) : DecimalDigits[d] = ch
DigitValue(ch) == (CHOOSE d \in 1..Len(DecimalDigits) : DecimalDigits[d] = ch) - 1

\* of two texts of digits of one length, a is the smaller number
RECURSIVE DigitsLess(_, _)
DigitsLess(a, b) ==
    IF a = "" THEN FALSE
    ELSE IF Head(a) # Head(b) THEN DigitValue(Head(a)) < DigitValue(Head(b))
    ELSE DigitsLess(Tail(a), Tail(b))

\* of two numbers written without leading zeros, a is the smaller
IndexLess(a, b) == Len(a) < Len(b) \/ (Len(a) = Len(b) /\ DigitsLess(a, b))

\* a property name that is an array index: the decimal text, without a
\* leading zero, of an integer from 0 to 2^32 - 2
IsArrayIndex(kid) ==
    /\ Len(kid) > 0
    /\ \A i \in 1..Len(kid) : IsDecimalDigit(SubSeq(kid, i, i))
    /\ Len(kid) = 1 \/ Head(kid) # "0"
    /\ ~IndexLess(GreatestArrayIndex, kid)

\* the names assigned, each at the place of its first assignment
RECURSIVE FirstAssignments(_)
FirstAssignments(kids) ==
    IF kids = <<>> THEN <<>>
    ELSE LET n == Len(kids)
             before == FirstAssignments(SubSeq(kids, 1, n - 1))
         IN  IF \E j \in 1..Len(before) : before[j] = kids[n]
             THEN before
             ELSE Append(before, kids[n])

\* array indices in ascending order
RECURSIVE Ascending(_)
Ascending(indices) ==
    IF indices = {} THEN <<>>
    ELSE LET least == CHOOSE a \in indices : \A b \in indices : ~IndexLess(b, a)
         IN  <<least>> \o Ascending(indices \ {least})

IsNoArrayIndex(kid) == ~IsArrayIndex(kid)

\* Object.entries of a record: the own properties whose names are array
\* indices come first, in ascending order of the index, then the others in
\* the order of their first assignment.
InsertionOrder(kids) ==
    LET assigned == FirstAssignments(kids)
    IN  Ascending({k \in Range(assigned) : IsArrayIndex(k)})
            \o SelectSeq(assigned, IsNoArrayIndex)

\* recipientKeyMap[kid] = key on a plain object: every kid becomes an own
\* property, except "__proto__", for which the assignment runs the prototype
\* setter and adds no property.
RECURSIVE OwnProperties(_)
OwnProperties(kids) ==
    IF kids = <<>> THEN <<>>
    ELSE IF Head(kids) = PrototypeKid THEN OwnProperties(Tail(kids))
    ELSE <<Head(kids)>> \o OwnProperties(Tail(kids))

Failed(call, message) == [call EXCEPT !.pc = "failed", !.error = message]

\* A family check that looks one way only (RSA signer, EC recipient).
MixedKeyTypes_OneWay(senderKey, recipientKey) ==
    senderKey.alg = "RSA-PSS" /\ recipientKey.alg = "ECDH"

\* sealCore up to its first await: the recipient check and the mixed-family
\* check, then generateCEK is called.
MixedKeyTypes(senderKey, recipientKey) ==
    \/ senderKey.alg = "RSA-PSS" /\ recipientKey.alg = "ECDH"
    \/ senderKey.alg = "ECDSA" /\ recipientKey.alg = "RSA-OAEP"

sealCoreEnter(payload, senderKey, senderKid, order, recipientKeys) ==
    LET call == [IdleSeal EXCEPT !.payload = payload, !.senderKey = senderKey,
                                 !.senderKid = senderKid, !.order = order,
                                 !.recipientKeys = recipientKeys]
    IN  IF DOMAIN recipientKeys = {}
        THEN Failed(call, <<"No recipients specified">>)
        ELSE IF \E k \in DOMAIN recipientKeys : MixedKeyTypes(senderKey, recipientKeys[k])
        THEN Failed(call, <<"Mixed key types not supported">>)
        ELSE [call EXCEPT !.pc = "generateCEK"]

\* A lookup loop that walks the request from its end.
FirstUnknown_FromEnd(instance, recipientKids) ==
    LET bad == {j \in 1..Len(recipientKids) :
                   recipientKids[j] \notin DOMAIN instance.recipientKeys}
    IN  IF bad = {} THEN 0 ELSE CHOOSE j \in bad : \A m \in bad : j >= m

\* Sealer.seal: every requested id is looked up in request order; the first
\* unknown one ends the call.
FirstUnknown(instance, recipientKids) ==
    LET bad == {j \in 1..Len(recipientKids) :
                   recipientKids[j] \notin DOMAIN instance.recipientKeys}
    IN  IF bad = {} THEN 0 ELSE CHOOSE j \in bad : \A m \in bad : j <= m

SealerSealEnter(instance, payload, recipientKids) ==
    LET u == FirstUnknown(instance, recipientKids)
    IN  IF u > 0
        THEN Failed([IdleSeal EXCEPT !.payload = payload],
                    <<"Unknown recipient", recipientKids[u]>>)
        ELSE sealCoreEnter(payload, instance.privateKey, instance.privateKid,
                           InsertionOrder(OwnProperties(recipientKids)),
                           [k \in Range(OwnProperties(recipientKids)) |->
                               instance.recipientKeys[k]])

SealerSeal(c) ==
    /\ sealCalls[c].pc = "idle"
    /\ wire = NoEnvelope
    /\ \E payload \in Plaintexts, recipientKids \in RecipientLists :
          sealCalls' = [sealCalls EXCEPT ![c] =
              [SealerSealEnter(sealer, payload, recipientKids) EXCEPT
                  !.api = "Sealer.seal", !.requested = recipientKids]]
    /\ UNCHANGED <<codec, createCalls, suite, sealer, unsealers, wire, touched, unsealCalls>>

\* sealCore called on key handles of the caller's own: any algorithm may sit
\* behind the signing key and behind each recipient key.
DirectKey(who, use, alg, priv) ==
    [id |-> <<who, use>>, alg |-> alg,
     crv |-> IF alg \in {"ECDSA", "ECDH"}
             THEN (IF suite = "RSA" THEN "P-256" ELSE suite)
             ELSE "none",
     priv |-> priv]

DirectSenderKeys ==
    {DirectKey("alice", "sig", alg, TRUE) : alg \in {"RSA-PSS", "ECDSA", "RSA-OAEP"}}

\* the own properties of the record given, as Object.entries walks them: the
\* kids of recipients and the kid "__proto__" (an own property of a record
\* made by Object.fromEntries or with a computed key)
DirectOrders ==
    {q \in SeqsUpTo(Recipients \cup {PrototypeKid}, MaxRecipients) :
        Cardinality(Range(q)) = Len(q)}

DirectRecipientKeys(order) ==
    {[k \in Range(order) |-> DirectKey(k, "enc", alg[k], FALSE)] :
        alg \in [Range(order) -> {"RSA-OAEP", "ECDH", "RSA-PSS"}]}

SealCore(c) ==
    /\ sealCalls[c].pc = "idle"
    /\ wire = NoEnvelope
    /\ \E payload \in Plaintexts, senderKey \in DirectSenderKeys, order \in DirectOrders :
          \E recipientKeys \in DirectRecipientKeys(order) :
              sealCalls' = [sealCalls EXCEPT ![c] =
                  [sealCoreEnter(payload, senderKey, "alice", order, recipientKeys) EXCEPT
                      !.api = "sealCore", !.requested = order]]
    /\ UNCHANGED <<codec, createCalls, suite, sealer, unsealers, wire, touched, unsealCalls>>

\* A content key kept in a module-level variable and handed to every call.
generateCEK_Pooled(c) == <<"cek", "pooled">>

\* generateCEK: a fresh AES-256 key
generateCEK(c) == <<"cek", c>>

GenerateCEK(c) ==
    /\ sealCalls[c].pc = "generateCEK"
    /\ sealCalls' = [sealCalls EXCEPT ![c].cek = generateCEK(c),
                                      ![c].log = Append(@, "generateKey"),
                                      ![c].pc = "encryptPayload"]
    /\ codec' = encodeSettled(codec, sealCalls')
    /\ UNCHANGED <<createCalls, suite, sealer, unsealers, wire, touched, unsealCalls>>

\* Convergent encryption: key and IV derived from the plaintext.
encryptPayload_Convergent(c, plaintext, cek) ==
    AesGcmEncrypt(<<"cek", "convergent">>, <<"iv", "convergent">>, plaintextBytes(plaintext))

\* encryptPayload: a fresh 12-byte IV, then AES-GCM under the CEK
encryptPayload(c, plaintext, cek) ==
    AesGcmEncrypt(cek, <<"iv", c>>, plaintextBytes(plaintext))

EncryptPayload(c) ==
    /\ sealCalls[c].pc = "encryptPayload"
    /\ sealCalls' = [sealCalls EXCEPT
            ![c].encryptedPayload = encryptPayload(c, sealCalls[c].payload, sealCalls[c].cek),
            ![c].log = Append(@, "encrypt"),
            ![c].i = 1,
            ![c].pc = "encryptCEK"]
    /\ codec' = encodeSettled(codec, sealCalls')
    /\ UNCHANGED <<createCalls, suite, sealer, unsealers, wire, touched, unsealCalls>>

\* encryptCEK: by the recipient key's algorithm; the ECDH branch generates an
\* ephemeral key pair of its own for this one wrap.
SupportedRecipient(recipientKey) == recipientKey.alg \in {"RSA-OAEP", "ECDH"}

\* An ephemeral key pair generated once per seal call, before the loop.
encryptCEK_SharedEphemeral(c, kid, cek, recipientKey) ==
    IF recipientKey.alg = "RSA-OAEP"
    THEN RsaOaepEncrypt(cek, recipientKey)
    ELSE EcdhWrap(cek, recipientKey, <<"eph", c>>, <<"iv", c, kid>>)

encryptCEK(c, kid, cek, recipientKey) ==
    IF recipientKey.alg = "RSA-OAEP"
    THEN RsaOaepEncrypt(cek, recipientKey)
    ELSE EcdhWrap(cek, recipientKey, <<"eph", c, kid>>, <<"iv", c, kid>>)

\* the provider calls encryptCEK awaits for one recipient, in order:
\* encryptCEKWithRSA exports the CEK and encrypts it; the ECDH branch
\* generates the ephemeral pair, exports its public half, derives the
\* wrapping key and wraps
encryptCEKCalls(recipientKey) ==
    IF recipientKey.alg = "RSA-OAEP" THEN <<"exportKey", "encrypt">>
    ELSE IF recipientKey.alg = "ECDH"
    THEN <<"generateKey", "exportKey", "deriveKey", "wrapKey">>
    ELSE <<>>

\* encryptedCEKs[kid] = text on a plain object: the entry of the kid is added
\* or replaced, except for "__proto__", for which the assignment runs the
\* prototype setter, which leaves a string aside: no entry is added.
SetEncryptedCEK(encryptedCEKs, kid, text) ==
    IF kid = PrototypeKid THEN encryptedCEKs
    ELSE [k \in DOMAIN encryptedCEKs \cup {kid} |->
             IF k = kid THEN text ELSE encryptedCEKs[k]]

\* A wrap loop that does not move on to the next recipient.
EncryptCEK_SameRecipient(c) ==
    LET call == sealCalls[c]
        kid == call.order[call.i]
        recipientKey == call.recipientKeys[kid]
        calls == encryptCEKCalls(recipientKey)
        wrapped == toBase64(encryptCEK(c, kid, call.cek, recipientKey))
    IN  /\ call.pc = "encryptCEK"
        /\ sealCalls' = [sealCalls EXCEPT ![c] =
              IF ~SupportedRecipient(recipientKey)
              THEN Failed(call, <<"Unsupported key type">>)
              ELSE IF call.w + 1 < Len(calls)
              THEN [call EXCEPT !.log = Append(@, calls[call.w + 1]), !.w = call.w + 1]
              ELSE [call EXCEPT
                      !.encryptedCEKs = SetEncryptedCEK(call.encryptedCEKs, kid, wrapped),
                      !.log = Append(@, calls[call.w + 1]),
                      !.w = 0,
                      !.pc = IF call.i = Len(call.order) THEN "signEnvelope" ELSE "encryptCEK"]]
        /\ codec' = encodeSettled(codec, sealCalls')
        /\ UNCHANGED <<createCalls, suite, sealer, unsealers, wire, touched, unsealCalls>>

\* One provider call of the wrap loop settles and sealCore runs on to its
\* next await: the next call of this recipient's wrap or, behind the last
\* one, encryptedCEKs[kid] is set and the loop moves on.  A recipient key of
\* neither algorithm makes encryptCEK throw before it calls the provider.
EncryptCEK(c) ==
    LET call == sealCalls[c]
        kid == call.order[call.i]
        recipientKey == call.recipientKeys[kid]
        calls == encryptCEKCalls(recipientKey)
        wrapped == toBase64(encryptCEK(c, kid, call.cek, recipientKey))
    IN  /\ call.pc = "encryptCEK"
        /\ sealCalls' = [sealCalls EXCEPT ![c] =
              IF ~SupportedRecipient(recipientKey)
              THEN Failed(call, <<"Unsupported key type">>)
              ELSE IF call.w + 1 < Len(calls)
              THEN [call EXCEPT !.log = Append(@, calls[call.w + 1]), !.w = call.w + 1]
              ELSE [call EXCEPT
                      !.encryptedCEKs = SetEncryptedCEK(call.encryptedCEKs, kid, wrapped),
                      !.log = Append(@, calls[call.w + 1]),
                      !.w = 0,
                      !.i = call.i + 1,
                      !.pc = IF call.i = Len(call.order) THEN "signEnvelope" ELSE "encryptCEK"]]
        /\ codec' = encodeSettled(codec, sealCalls')
        /\ UNCHANGED <<createCalls, suite, sealer, unsealers, wire, touched, unsealCalls>>

\* the object sealCore signs
signedData(kid, ceks, payload) == [kid |-> kid, cek |-> ceks, payload |-> payload]

\* signEnvelope: by the sender key's algorithm
SupportedSender(senderKey) == senderKey.alg \in {"RSA-PSS", "ECDSA"}

signEnvelope(data, senderKey) == toBase64(Sign(canonicalize(data), senderKey))

SignEnvelope(c) ==
    LET call == sealCalls[c]
        data == signedData(call.senderKid, call.encryptedCEKs, toBase64(call.encryptedPayload))
    IN  /\ call.pc = "signEnvelope"
        /\ sealCalls' = [sealCalls EXCEPT ![c] =
              IF ~SupportedSender(call.senderKey)
              THEN Failed(call, <<"Unsupported key type">>)
              ELSE [call EXCEPT
                      !.result = [kid |-> data.kid, cek |-> data.cek, payload |-> data.payload,
                                  signature |-> signEnvelope(data, call.senderKey),
                                  ctx |-> Undefined],
                      !.log = Append(@, "sign"),
                      !.pc = "digest"]]
        /\ codec' = encodeSettled(codec, sealCalls')
        /\ UNCHANGED <<createCalls, suite, sealer, unsealers, wire, touched, unsealCalls>>

\* the commitment, and the envelope returned
SealDigest(c) ==
    LET call == sealCalls[c]
    IN  /\ call.pc = "digest"
        /\ sealCalls' = [sealCalls EXCEPT
              ![c].result = [call.result EXCEPT
                               !.ctx = toBase64(Sha256(ctxInput(call.encryptedPayload)))],
              ![c].log = Append(@, "digest"),
              ![c].pc = "done"]
        /\ codec' = encodeSettled(codec, sealCalls')
        /\ UNCHANGED <<createCalls, suite, sealer, unsealers, wire, touched, unsealCalls>>

-----------------------------------------------------------------------------
(* The channel between sealer and unsealers *)

\* The caller of a finished seal call sends the envelope it got.
Send(c) ==
    /\ sealCalls[c].pc = "done"
    /\ wire = NoEnvelope
    /\ wire' = sealCalls[c].result
    /\ UNCHANGED <<codec, createCalls, suite, sealer, unsealers, sealCalls, touched, unsealCalls>>

\* A holder of a trusted signing key assembles an envelope with the provider
\* directly: a CEK of its own choice for each recipient, and one AES-GCM
\* ciphertext whose tag verifies under each of these keys, decrypting to a
\* plaintext chosen per key (AES-GCM does not commit to its key).
ForgedKey(r) == <<"cek", "x", r>>
ForgedPlaintext(r) == IF r = "bob" THEN <<66>> ELSE <<67>>

ForgedPayload ==
    [tag |-> "gcm", iv |-> <<"iv", "x">>,
     open |-> {[key |-> ForgedKey(r), pt |-> ForgedPlaintext(r)] : r \in Recipients},
     len |-> IvLength + 1 + GcmTagLength, mod |-> 0]

ForgedEnvelope(s) ==
    LET ceks == [r \in Recipients |->
                    toBase64(encryptCEK("x", r, ForgedKey(r), sealer.recipientKeys[r]))]
        data == signedData(s, ceks, toBase64(ForgedPayload))
    IN  [kid |-> s, cek |-> ceks, payload |-> data.payload,
         signature |-> signEnvelope(data, importKey(SigningJWK(s, suite, TRUE), SigAlg(suite))),
         ctx |-> toBase64(Sha256(ctxInput(ForgedPayload)))]

\* a key that is not the one the crafted payload was encrypted under
OtherKey(r) == <<"cek", "y", r>>

\* n bytes laid out as IV || ciphertext || tag; a tag made under ForgedKey(r)
\* for each recipient r over the bytes between IV and tag
CraftedPayload(n) ==
    [tag |-> "gcm", iv |-> <<"iv", "x">>,
     open |-> {[key |-> ForgedKey(r),
                pt |-> [i \in 1..(n - IvLength - GcmTagLength) |-> 66]] : r \in Recipients},
     len |-> n, mod |-> 0]

\* signed by s; the recipients in wrong get OtherKey wrapped, the others the
\* key of the payload; ctx is what unsealCore computes from the payload
CraftedEnvelope(s, n, wrong) ==
    LET ceks == [r \in Recipients |->
                    toBase64(encryptCEK("x", r,
                                        IF r \in wrong THEN OtherKey(r) ELSE ForgedKey(r),
                                        sealer.recipientKeys[r]))]
        data == signedData(s, ceks, toBase64(CraftedPayload(n)))
    IN  [kid |-> s, cek |-> ceks, payload |-> data.payload,
         signature |-> signEnvelope(data, importKey(SigningJWK(s, suite, TRUE), SigAlg(suite))),
         ctx |-> toBase64(Sha256(ctxInput(CraftedPayload(n))))]

Forge(s) ==
    /\ wire = NoEnvelope
    /\ \A c \in SealIds : sealCalls[c].pc = "idle"
    /\ wire' = ForgedEnvelope(s)
    /\ UNCHANGED <<codec, createCalls, suite, sealer, unsealers, sealCalls, touched, unsealCalls>>

\* One character of a base64 text changed: either the bytes it decodes to
\* change, or (when the text has slack bits) only the slack does.
TextChanges(text) ==
    {[text EXCEPT !.b = Modified(text.b)]}
        \cup (IF SlackBits(text.b.len) > 0 /\ text.slack = 0
              THEN {[text EXCEPT !.slack = 1]}
              ELSE {})

NoUnsealBegun == \A u \in DOMAIN unsealCalls : unsealCalls[u].pc = "idle"

\* Somebody on the channel changes one field of the envelope; each field at
\* most once.
MayTouch(field) ==
    /\ IsEnvelope(wire)
    /\ NoUnsealBegun
    /\ field \notin touched
    /\ Cardinality(touched) < MaxTouched

TamperKid ==
    /\ MayTouch("kid")
    /\ \E k \in (Senders \cup Strangers
                    \cup {PrototypeKid, "constructor", "isPrototypeOf"}) \ {wire.kid} :
          wire' = [wire EXCEPT !.kid = k]
    /\ touched' = touched \cup {"kid"}
    /\ UNCHANGED <<codec, createCalls, suite, sealer, unsealers, sealCalls, unsealCalls>>

TamperCek ==
    /\ MayTouch("cek")
    /\ \E r \in DOMAIN wire.cek : \E t \in TextChanges(wire.cek[r]) :
          wire' = [wire EXCEPT !.cek[r] = t]
    /\ touched' = touched \cup {"cek"}
    /\ UNCHANGED <<codec, createCalls, suite, sealer, unsealers, sealCalls, unsealCalls>>

TamperPayload ==
    /\ MayTouch("payload")
    /\ \E t \in TextChanges(wire.payload) : wire' = [wire EXCEPT !.payload = t]
    /\ touched' = touched \cup {"payload"}
    /\ UNCHANGED <<codec, createCalls, suite, sealer, unsealers, sealCalls, unsealCalls>>

TamperSignature ==
    /\ MayTouch("signature")
    /\ \E t \in TextChanges(wire.signature) : wire' = [wire EXCEPT !.signature = t]
    /\ touched' = touched \cup {"signature"}
    /\ UNCHANGED <<codec, createCalls, suite, sealer, unsealers, sealCalls, unsealCalls>>

TamperCtx ==
    /\ MayTouch("ctx")
    /\ \E t \in TextChanges(wire.ctx) : wire' = [wire EXCEPT !.ctx = t]
    /\ touched' = touched \cup {"ctx"}
    /\ UNCHANGED <<codec, createCalls, suite, sealer, unsealers, sealCalls, unsealCalls>>

-----------------------------------------------------------------------------
(* Unsealer.unseal and unsealCore *)

IdleUnseal ==
    [pc |-> "idle", api |-> "", envelope |-> NoEnvelope, recipientKey |-> NoKey,
     recipientKid |-> "", senderKeys |-> NoKeys, senderKey |-> NoKey, w |-> 0,
     cek |-> <<>>, result |-> <<>>, error |-> <<>>, log |-> <<>>]

\* senderKeys[kid] on a plain object: the own property of that name, else
\* what the object inherits under it, else undefined (NoKey)
Lookup(senderKeys, kid) ==
    IF kid \in DOMAIN senderKeys THEN senderKeys[kid]
    ELSE IF kid \in InheritedMembers THEN InheritedValue
    ELSE NoKey

\* unsealCore up to its first await: the sender key is looked up by
\* envelope.kid in the keys given and tested for truthiness, then
\* verifyEnvelope is called with what the lookup gave.
unsealCoreEnter(envelope, recipientKey, recipientKid, senderKeys) ==
    LET call == [IdleUnseal EXCEPT !.envelope = envelope,
                                   !.recipientKey = recipientKey,
                                   !.recipientKid = recipientKid,
                                   !.senderKeys = senderKeys]
    IN  IF Lookup(senderKeys, envelope.kid) = NoKey
        THEN Failed(call, <<"Unknown sender key">>)
        ELSE [call EXCEPT !.senderKey = Lookup(senderKeys, envelope.kid),
                          !.pc = "verifyEnvelope"]

\* An Unsealer that verifies under the first key of its sender set whatever
\* the kid of the envelope.
UnsealerUnsealEnter_FirstSenderKey(instance, envelope) ==
    IF envelope.kid \notin DOMAIN instance.senderKeys
    THEN Failed([IdleUnseal EXCEPT !.envelope = envelope], <<"Unknown sender key">>)
    ELSE unsealCoreEnter(envelope, instance.privateKey, instance.privateKid,
                         [k \in {envelope.kid} |->
                             instance.senderKeys[CHOOSE f \in DOMAIN instance.senderKeys :
                                                    f = "alice"]])

\* Unsealer.unseal: the sender key is looked up by envelope.kid, and
\* unsealCore is given that one key under that kid.
UnsealerUnsealEnter(instance, envelope) ==
    IF envelope.kid \notin DOMAIN instance.senderKeys
    THEN Failed([IdleUnseal EXCEPT !.envelope = envelope], <<"Unknown sender key">>)
    ELSE unsealCoreEnter(envelope, instance.privateKey, instance.privateKid,
                         [k \in {envelope.kid} |-> instance.senderKeys[k]])

UnsealerUnseal(u) ==
    /\ unsealCalls[u].pc = "idle"
    /\ IsEnvelope(wire)
    /\ unsealCalls' = [unsealCalls EXCEPT ![u] =
          [UnsealerUnsealEnter(unsealers[u], wire) EXCEPT !.api = "Unsealer.unseal"]]
    /\ UNCHANGED <<codec, createCalls, suite, sealer, unsealers, sealCalls, wire, touched>>

\* unsealCore called by a recipient with a sender key record of its own: one
\* that holds amy's key alone
DirectSenderSets == {{"amy"}}

UnsealCore(u) ==
    /\ unsealCalls[u].pc = "idle"
    /\ IsEnvelope(wire)
    /\ \E known \in DirectSenderSets :
          unsealCalls' = [unsealCalls EXCEPT ![u] =
              [unsealCoreEnter(wire, unsealers[u].privateKey, unsealers[u].privateKid,
                               [k \in known |->
                                   importKey(SigningJWK(k, suite, FALSE), SigAlg(suite))])
                  EXCEPT !.api = "unsealCore"]]
    /\ UNCHANGED <<codec, createCalls, suite, sealer, unsealers, sealCalls, wire, touched>>

\* A verification whose result is a pending promise, truthy whatever it
\* resolves to.
verifyEnvelope_NotAwaited(data, signature, senderPublicKey) == TRUE

\* senderPublicKey.algorithm.name can be read: the value has an algorithm
HasAlgorithm(senderPublicKey) == senderPublicKey.alg # "undefined"

\* verifyEnvelope: the signature over canonical {kid, cek, payload}
verifyEnvelope(data, signature, senderPublicKey) ==
    Verify(canonicalize(data), base64ToUint8Array(signature), senderPublicKey)

\* an object that JSON.parse gave and no Sealer wrote
IsForeign(envelope) == "json" \in DOMAIN envelope

\* verifyEnvelope up to its await of the provider and behind it: the
\* signature is decoded, the algorithm of the key is read, and the provider
\* verifies.  The signature of an object that no Sealer wrote is no base64
\* text of a signature: the decoder throws for it, or gives bytes that the
\* provider finds to be no signature of the data.
verifyEnvelopeEnds(call) ==
    LET env == call.envelope
        tested == IF ~HasAlgorithm(call.senderKey)
                  THEN Failed(call, <<"TypeError">>)
                  ELSE IF ~SupportedSender(call.senderKey)
                  THEN Failed(call, <<"Unsupported key type">>)
                  ELSE IF \/ IsForeign(env)
                          \/ ~verifyEnvelope(signedData(env.kid, env.cek, env.payload),
                                             env.signature, call.senderKey)
                  THEN Failed([call EXCEPT !.log = Append(@, "verify")],
                              <<"Invalid envelope signature">>)
                  ELSE [call EXCEPT !.log = Append(@, "verify"), !.pc = "decryptCEK"]
    IN  IF IsForeign(env) THEN {Failed(call, <<"TypeError">>), tested} ELSE {tested}

VerifyEnvelope(u) ==
    /\ unsealCalls[u].pc = "verifyEnvelope"
    /\ \E ended \in verifyEnvelopeEnds(unsealCalls[u]) :
          unsealCalls' = [unsealCalls EXCEPT ![u] = ended]
    /\ codec' = decodeSettled(codec, unsealCalls')
    /\ UNCHANGED <<createCalls, suite, sealer, unsealers, sealCalls, wire, touched>>

\* a member of Object.prototype where a base64 text is looked for
InheritedEntry == [inherited |-> TRUE]
\* neither undefined nor such a member is a text
IsNoText(t) == IsUndefined(t) \/ "inherited" \in DOMAIN t

\* envelope.cek[recipientKid] on a plain object: the own entry of that kid,
\* else what the object inherits under that name, else undefined
cekEntry(envelope, recipientKid) ==
    IF recipientKid \in DOMAIN envelope.cek THEN envelope.cek[recipientKid]
    ELSE IF recipientKid \in InheritedMembers THEN InheritedEntry
    ELSE Undefined

\* decryptCEKWithRSA: RSA-OAEP decrypt, then import the bytes as the AES key
RsaUnwraps(blob, recipientKey) ==
    /\ blob.tag = "oaep"
    /\ blob.mod = 0
    /\ blob.to = recipientKey.id

\* decryptCEK, ECDH branch: the first 65 bytes are imported as the ephemeral
\* public key on the recipient key's curve, the rest is unwrapped under the
\* key derived from it.
EcdhUnwraps(blob, recipientKey) ==
    /\ blob.tag = "ecdh"
    /\ blob.mod = 0
    /\ blob.crv = recipientKey.crv
    /\ blob.ephLen = EphemeralPrefixLength
    /\ blob.secret = DeriveKey(blob.eph, recipientKey.id)

decryptCEKSucceeds(encryptedCEK, recipientKey) ==
    /\ ~IsNoText(encryptedCEK)
    /\ \/ recipientKey.alg = "RSA-OAEP"
          /\ RsaUnwraps(base64ToUint8Array(encryptedCEK), recipientKey)
       \/ recipientKey.alg = "ECDH"
          /\ EcdhUnwraps(base64ToUint8Array(encryptedCEK), recipientKey)

\* what decryptCEK throws: decoding a missing entry, or a value that is no
\* text, fails in the decoder or, where the decoder yields bytes for it, in
\* the provider
decryptCEKErrors(encryptedCEK, recipientKey) ==
    IF IsNoText(encryptedCEK)
    THEN {<<"TypeError">>, <<"KeyUnwrapFailure">>}
    ELSE IF ~SupportedRecipient(recipientKey)
    THEN {<<"Unsupported key type">>}
    ELSE {<<"KeyUnwrapFailure">>}

\* the provider calls decryptCEK awaits, in order: decryptCEKWithRSA
\* decrypts and imports the bytes as the AES key; the ECDH branch imports
\* the ephemeral public key, derives the wrapping key and unwraps
decryptCEKCalls(recipientKey) ==
    IF recipientKey.alg = "RSA-OAEP" THEN <<"decrypt", "importKey">>
    ELSE IF recipientKey.alg = "ECDH" THEN <<"importKey", "deriveKey", "unwrapKey">>
    ELSE <<>>

\* the calls of decryptCEKCalls that may be the one to fail (0: decryptCEK
\* throws before it calls the provider).  RSA-OAEP: the decryption.  ECDH:
\* the import, when the first 65 bytes are no public key of the curve; the
\* unwrap, when the derived key or the wrapped bytes are not those of the
\* wrap; changed bytes lie in the one part or in the other.
decryptCEKFailsAt(encryptedCEK, recipientKey) ==
    IF decryptCEKSucceeds(encryptedCEK, recipientKey) THEN {}
    ELSE IF IsNoText(encryptedCEK)
    THEN {0} \cup (IF SupportedRecipient(recipientKey) THEN {1} ELSE {})
    ELSE IF ~SupportedRecipient(recipientKey) THEN {0}
    ELSE IF recipientKey.alg = "RSA-OAEP" THEN {1}
    ELSE LET blob == base64ToUint8Array(encryptedCEK)
         IN  IF blob.tag # "ecdh" THEN {1}
             ELSE IF blob.crv # recipientKey.crv \/ blob.ephLen # EphemeralPrefixLength
             THEN {1}
             ELSE IF blob.mod # 0 THEN {1, 3}
             ELSE {3}

\* the error of a failure at call n of the unwrap
decryptCEKErrorAt(encryptedCEK, recipientKey, n) ==
    IF n > 0 THEN <<"KeyUnwrapFailure">>
    ELSE IF IsNoText(encryptedCEK) THEN <<"TypeError">>
    ELSE <<"Unsupported key type">>

\* One step of decryptCEK: it throws before a provider call, or the next
\* provider call of the unwrap is made and fails, or it settles and the call
\* runs on to its next await; behind the last one the CEK is held.
DecryptCEK(u) ==
    LET call == unsealCalls[u]
        encryptedCEK == cekEntry(call.envelope, call.recipientKid)
        calls == decryptCEKCalls(call.recipientKey)
        failsAt == decryptCEKFailsAt(encryptedCEK, call.recipientKey)
        n == call.w + 1
    IN  /\ call.pc = "decryptCEK"
        /\ \/ /\ call.w = 0
              /\ 0 \in failsAt
              /\ unsealCalls' = [unsealCalls EXCEPT ![u] =
                    Failed(call, decryptCEKErrorAt(encryptedCEK, call.recipientKey, 0))]
           \/ /\ n \in failsAt
              /\ unsealCalls' = [unsealCalls EXCEPT ![u] =
                    Failed([call EXCEPT !.log = Append(@, calls[n])],
                           decryptCEKErrorAt(encryptedCEK, call.recipientKey, n))]
           \/ /\ n <= Len(calls)
              /\ failsAt = {} \/ \E later \in failsAt : later > n
              /\ unsealCalls' = [unsealCalls EXCEPT ![u] =
                    IF n < Len(calls)
                    THEN [call EXCEPT !.log = Append(@, calls[n]), !.w = n]
                    ELSE [call EXCEPT !.cek = base64ToUint8Array(encryptedCEK).cek,
                                      !.log = Append(@, calls[n]),
                                      !.w = 0,
                                      !.pc = "digest"]]
        /\ codec' = decodeSettled(codec, unsealCalls')
        /\ UNCHANGED <<createCalls, suite, sealer, unsealers, sealCalls, wire, touched>>

\* areUint8ArraysEqual(computedCtx, expectedCtx)
areUint8ArraysEqual(a, b) == a = b

\* A comparison of the lengths alone.
ctxMatches_LengthOnly(envelope) ==
    Sha256(ctxInput(base64ToUint8Array(envelope.payload))).len
        = base64ToUint8Array(envelope.ctx).len

ctxMatches(envelope) ==
    areUint8ArraysEqual(Sha256(ctxInput(base64ToUint8Array(envelope.payload))),
                        base64ToUint8Array(envelope.ctx))

UnsealDigest(u) ==
    LET call == unsealCalls[u]
    IN  /\ call.pc = "digest"
        /\ unsealCalls' = [unsealCalls EXCEPT ![u] =
              IF ctxInputThrows(base64ToUint8Array(call.envelope.payload))
              THEN Failed(call, <<"RangeError">>)
              ELSE IF ~ctxMatches(call.envelope)
              THEN Failed([call EXCEPT !.log = Append(@, "digest")], <<"Invalid CTX tag">>)
              ELSE [call EXCEPT !.log = Append(@, "digest"), !.pc = "decrypt"]]
        /\ codec' = decodeSettled(codec, unsealCalls')
        /\ UNCHANGED <<createCalls, suite, sealer, unsealers, sealCalls, wire, touched>>

\* A decryption whose failure is caught: the call returns no bytes.
Decrypt_Swallowed(u) ==
    LET call == unsealCalls[u]
        encrypted == base64ToUint8Array(call.envelope.payload)
    IN  /\ call.pc = "decrypt"
        /\ unsealCalls' = [unsealCalls EXCEPT ![u] =
              [call EXCEPT !.result = IF AesGcmOpens(encrypted, call.cek)
                                      THEN AesGcmDecrypt(encrypted, call.cek)
                                      ELSE <<>>,
                           !.log = Append(@, "decrypt"),
                           !.pc = "done"]]
        /\ codec' = decodeSettled(codec, unsealCalls')
        /\ UNCHANGED <<createCalls, suite, sealer, unsealers, sealCalls, wire, touched>>

\* crypto.subtle.decrypt of encrypted.subarray(12) under the unwrapped CEK
Decrypt(u) ==
    LET call == unsealCalls[u]
        encrypted == base64ToUint8Array(call.envelope.payload)
    IN  /\ call.pc = "decrypt"
        /\ unsealCalls' = [unsealCalls EXCEPT ![u] =
              IF ~AesGcmOpens(encrypted, call.cek)
              THEN Failed([call EXCEPT !.log = Append(@, "decrypt")],
                          <<"AuthenticationFailure">>)
              ELSE [call EXCEPT !.result = AesGcmDecrypt(encrypted, call.cek),
                                !.log = Append(@, "decrypt"),
                                !.pc = "done"]]
        /\ codec' = decodeSettled(codec, unsealCalls')
        /\ UNCHANGED <<createCalls, suite, sealer, unsealers, sealCalls, wire, touched>>

-----------------------------------------------------------------------------
(* Sealer.seal and Unsealer.unseal run from call to return, as the payload  *)
(* codec awaits them                                                        *)

\* sealCore behind the checks of its entry: the envelope, or the error thrown;
\* the wrap made for the kid "__proto__" is assigned to no entry of cek
sealEntered(entry, c, payload) ==
    LET cek == generateCEK(c)
        encrypted == encryptPayload(c, payload, cek)
        ceks == [k \in Range(entry.order) \ {PrototypeKid} |->
                    toBase64(encryptCEK(c, k, cek, entry.recipientKeys[k]))]
        data == signedData(entry.senderKid, ceks, toBase64(encrypted))
    IN  IF entry.pc = "failed"
        THEN [ok |-> FALSE, envelope |-> NoEnvelope, errors |-> {entry.error}]
        ELSE IF \/ \E k \in Range(entry.order) : ~SupportedRecipient(entry.recipientKeys[k])
                \/ ~SupportedSender(entry.senderKey)
        THEN [ok |-> FALSE, envelope |-> NoEnvelope, errors |-> {<<"Unsupported key type">>}]
        ELSE [ok |-> TRUE,
              envelope |-> [kid |-> data.kid, cek |-> data.cek, payload |-> data.payload,
                            signature |-> signEnvelope(data, entry.senderKey),
                            ctx |-> toBase64(Sha256(ctxInput(encrypted)))],
              errors |-> {}]

\* Sealer.seal: the envelope, or the error thrown
sealWhole(instance, c, payload, recipientKids) ==
    sealEntered(SealerSealEnter(instance, payload, recipientKids), c, payload)

\* unsealCore behind the checks of its entry: the plaintext bytes, or the
\* errors it may throw
unsealEntered(entry, envelope) ==
    LET encryptedCEK == cekEntry(envelope, entry.recipientKid)
        encrypted == base64ToUint8Array(envelope.payload)
        thrown(errors) == [ok |-> FALSE, bytes |-> <<>>, errors |-> errors]
    IN  IF entry.pc = "failed" THEN thrown({entry.error})
        ELSE IF IsForeign(envelope)
        THEN thrown({<<"TypeError">>, <<"Invalid envelope signature">>})
        ELSE IF ~HasAlgorithm(entry.senderKey) THEN thrown({<<"TypeError">>})
        ELSE IF ~SupportedSender(entry.senderKey) THEN thrown({<<"Unsupported key type">>})
        ELSE IF ~verifyEnvelope(signedData(envelope.kid, envelope.cek, envelope.payload),
                                envelope.signature, entry.senderKey)
        THEN thrown({<<"Invalid envelope signature">>})
        ELSE IF ~decryptCEKSucceeds(encryptedCEK, entry.recipientKey)
        THEN thrown(decryptCEKErrors(encryptedCEK, entry.recipientKey))
        ELSE IF ctxInputThrows(encrypted) THEN thrown({<<"RangeError">>})
        ELSE IF ~ctxMatches(envelope) THEN thrown({<<"Invalid CTX tag">>})
        ELSE IF ~AesGcmOpens(encrypted, base64ToUint8Array(encryptedCEK).cek)
        THEN thrown({<<"AuthenticationFailure">>})
        ELSE [ok |-> TRUE,
              bytes |-> AesGcmDecrypt(encrypted, base64ToUint8Array(encryptedCEK).cek),
              errors |-> {}]

\* Unsealer.unseal: the plaintext bytes, or the errors it may throw
unsealWhole(instance, envelope) ==
    unsealEntered(UnsealerUnsealEnter(instance, envelope), envelope)

-----------------------------------------------------------------------------
(* The payload codec at work: JSON.parse, Unsealer.unseal and the calls     *)

\* the kids of the parties, as the code points of their characters
KidText ==
    [k \in {"alice", "amy", "bob", "carol", "yan", "zed"} |->
        IF k = "alice" THEN <<97, 108, 105, 99, 101>>
        ELSE IF k = "amy" THEN <<97, 109, 121>>
        ELSE IF k = "bob" THEN <<98, 111, 98>>
        ELSE IF k = "carol" THEN <<99, 97, 114, 111, 108>>
        ELSE IF k = "yan" THEN <<121, 97, 110>>
        ELSE <<122, 101, 100>>]

\* a kid that is the kid of no key
NoKid == ""

\* value.kid of a parsed value that is not null: the member "kid" an object
\* was last given, when it is a string; undefined (NoKid) for an object
\* without it and for a number, a string, a boolean and an array.  A kid
\* that is no string is the key of no entry of a Map of strings.
KidOfParsed(value) ==
    LET places == IF value.json = "object"
                  THEN {j \in 1..Len(value.members) :
                           value.members[j].key = <<107, 105, 100>>}
                  ELSE {}
        last == value.members[CHOOSE j \in places : \A m \in places : m <= j].val
    IN  IF places = {} THEN NoKid
        ELSE IF last.json # "string" THEN NoKid
        ELSE IF \E k \in DOMAIN KidText : KidText[k] = last.s
        THEN CHOOSE k \in DOMAIN KidText : KidText[k] = last.s
        ELSE NoKid

\* an object that is no envelope of a Sealer, as unsealCore reads it: its kid
\* names a key, and its other members are not base64 texts of provider bytes
ForeignEnvelope(kid, value) ==
    [kid |-> kid, cek |-> NoCEKs, payload |-> Undefined, signature |-> Undefined,
     ctx |-> Undefined, json |-> value]

\* unsealer.unseal(envelope) of what JSON.parse returned, up to its first
\* await: envelope.kid of null throws; a value without a kid the sender map
\* knows is refused; else unsealCore is entered
unsealParsed(instance, parsed) ==
    IF IsEnvelope(parsed) THEN UnsealerUnsealEnter(instance, parsed)
    ELSE IF parsed.json = "null"
    THEN Failed([IdleUnseal EXCEPT !.envelope = NoEnvelope], <<"TypeError">>)
    ELSE IF KidOfParsed(parsed) \notin DOMAIN instance.senderKeys
    THEN Failed([IdleUnseal EXCEPT !.envelope = NoEnvelope], <<"Unknown sender key">>)
    ELSE UnsealerUnsealEnter(instance, ForeignEnvelope(KidOfParsed(parsed), parsed))

\* Unsealer.unseal of what JSON.parse returned, from call to return
unsealParsedWhole(instance, parsed) ==
    unsealEntered(unsealParsed(instance, parsed),
                  IF IsEnvelope(parsed) THEN parsed
                  ELSE ForeignEnvelope(NoKid, parsed))

\* decode of one payload from call to return: passed through when it does
\* not carry our encoding or has no data; else parsed, unsealed and decoded
decodeUnsealed(payload, decryptedPayload) ==
    IF decryptedPayload.ok
    THEN [ok |-> TRUE, payload |-> PayloadDecode(decryptedPayload.bytes), unsealed |-> TRUE]
    ELSE [ok |-> FALSE, payload |-> payload, unsealed |-> TRUE]

decodeOne(unsealer, payload) ==
    IF PassesThrough(payload)
    THEN [ok |-> TRUE, payload |-> payload, unsealed |-> FALSE]
    ELSE IF JsonParseThrows(payload.data.bytes)
    THEN [ok |-> FALSE, payload |-> payload, unsealed |-> FALSE]
    ELSE decodeUnsealed(payload, unsealParsedWhole(unsealer, JsonParse(payload.data.bytes)))

-----------------------------------------------------------------------------
(* Codecs at work: parties that share one set of options, each with keys of *)
(* its own; bob and carol are listed in the options, zed is not             *)

CodecParties == {"bob", "carol", "zed"}

\* the create call of the encode call and of the decode call
CodecCreates == {"encode", "decode"}

IdleCodec ==
    [options |-> [recipients |-> <<>>, senders |-> <<>>, senderSuite |-> "RSA"],
     encodeCall |-> IdleCodecCall, batch |-> <<>>, sent |-> FALSE,
     decodeCall |-> IdleCodecCall, reply |-> NoReply]

\* create has thrown: the codec call rejects.  create has returned: the
\* call runs payloads.map, every callback up to its first await, and awaits
\* Promise.all
encodeCreated(call, created) ==
    IF created.pc = "failed" THEN [call EXCEPT !.pc = "failed"]
    ELSE [call EXCEPT !.pc = "all", !.created = TRUE]

decodeCreated(call, created) ==
    IF created.pc = "failed" THEN [call EXCEPT !.pc = "failed"]
    ELSE [call EXCEPT
            !.pc = "all", !.created = TRUE,
            !.unsealed = {i \in 1..Len(call.input) :
                             /\ ~PassesThrough(call.input[i])
                             /\ ~JsonParseThrows(call.input[i].data.bytes)},
            !.threw = {i \in 1..Len(call.input) :
                          /\ ~PassesThrough(call.input[i])
                          /\ JsonParseThrows(call.input[i].data.bytes)}]

\* the seal calls the callbacks of encode make: sealer.seal(encodedPayload,
\* recipientKids) for each payload, up to its first await
sealCallsMapped(calls, created, call, recipientKids) ==
    IF created.pc = "failed" THEN calls
    ELSE [c \in DOMAIN calls |->
            IF \E i \in 1..Len(call.input) : CallOfPosition[i] = c
            THEN [SealerSealEnter(created.result,
                      [str |-> FALSE,
                       v |-> PayloadEncode(call.input[CHOOSE i \in 1..Len(call.input) :
                                                         CallOfPosition[i] = c])],
                      recipientKids)
                    EXCEPT !.api = "Sealer.seal", !.requested = recipientKids]
            ELSE calls[c]]

\* the unseal calls the callbacks of decode make
unsealCallsMapped(calls, created, mapped) ==
    IF created.pc = "failed" THEN calls
    ELSE [u \in DOMAIN calls |->
            IF \E i \in mapped.unsealed : UnsealOfPosition[i] = u
            THEN [unsealParsed(created.result,
                      JsonParse(mapped.input[CHOOSE i \in mapped.unsealed :
                                                UnsealOfPosition[i] = u].data.bytes))
                    EXCEPT !.api = "Unsealer.unseal"]
            ELSE calls[u]]

\* the options a deployment may share: the recipients bob and carol, with or
\* without a key whose kid is "__proto__"; the senders bob and carol, with
\* signing keys of the recipients' curve or of the other one
CodecOptions ==
    {[recipients |-> r, senders |-> <<"bob", "carol">>, senderSuite |-> t] :
        r \in {<<"bob", "carol">>, <<"bob", "carol", PrototypeKid>>},
        t \in SuitesOfFamily(suite)}

\* "json/plain", as the code points of its characters
JsonPlainEncoding == <<106, 115, 111, 110, 47, 112, 108, 97, 105, 110>>

\* payloads as a Temporal client has them
JsonPlain(key, v) ==
    [metadata |-> Metadata([k \in {key} |-> TextEncoderEncode(JsonPlainEncoding)]),
     data |-> Data(Raw(v))]
OursWith(data) ==
    [metadata |-> Metadata([k \in {METADATA_ENCODING_KEY} |-> TextEncoderEncode(ENCODING)]),
     data |-> data]

EncodeBatches ==
    {<<>>, <<JsonPlain("message.encoding", <<1>>)>>,
     <<JsonPlain("message.encoding", <<1>>), JsonPlain(METADATA_ENCODING_KEY, <<2>>)>>,
     <<JsonPlain(METADATA_ENCODING_KEY, <<2>>), JsonPlain("message.encoding", <<1>>)>>}

\* payloads no codec encoded: other encodings, no metadata, our encoding
\* without data and with data of no bytes
PlainPayloads ==
    {JsonPlain("message.encoding", <<1>>), JsonPlain(METADATA_ENCODING_KEY, <<2>>),
     [metadata |-> NoMetadata, data |-> Data(Raw(<<1>>))],
     OursWith(NoData), OursWith(Data(EmptyBytes))}

\* JSON texts that are no envelope: 1, null, {}, [] and {"kid":"bob"}
ForeignTexts ==
    {<<49>>, <<110, 117, 108, 108>>, <<123, 125>>, <<91, 93>>,
     <<123, 34, 107, 105, 100, 34, 58, 34, 98, 111, 98, 34, 125>>}

\* the bytes EF BB BF of a byte order mark before the UTF-8 bytes of a text
WithByteOrderMark(text) == Raw(<<239, 187, 191>> \o TextEncode(text))

\* one change of the bytes of an envelope's JSON text: another kid, one
\* character of one base64 string, a member added, a text that no longer
\* parses, or the text of another JSON value in its place
EnvelopeChanges(env) ==
    {[env EXCEPT !.kid = k] : k \in CodecParties \ {env.kid}}
        \cup UNION {{[env EXCEPT !.cek[r] = t] : t \in TextChanges(env.cek[r])} :
                        r \in DOMAIN env.cek}
        \cup {[env EXCEPT !.payload = t] : t \in TextChanges(env.payload)}
        \cup {[env EXCEPT !.signature = t] : t \in TextChanges(env.signature)}
        \cup {[env EXCEPT !.ctx = t] : t \in TextChanges(env.ctx)}
        \cup {[m \in DOMAIN env \cup {"note"} |-> IF m = "note" THEN "" ELSE env[m]]}

DataChanges(bytes) ==
    {[bytes EXCEPT !.doc = e] : e \in EnvelopeChanges(bytes.doc)}
        \cup {[bytes EXCEPT !.broken = TRUE]}
        \cup {TextEncoderEncode(t) : t \in ForeignTexts}

\* what may reach a decoder of an encoded batch: the batch as encoded, the
\* batch with the data of one payload changed, the batch with a byte order
\* mark before the encoding of its first payload, or the batch behind a
\* payload that no codec encoded
Deliveries(encoded) ==
    {encoded}
        \cup UNION {{[encoded EXCEPT ![i].data.bytes = d] :
                        d \in DataChanges(encoded[i].data.bytes)} :
                    i \in 1..Len(encoded)}
        \cup {[encoded EXCEPT ![1].metadata.map[METADATA_ENCODING_KEY] =
                                  WithByteOrderMark(ENCODING)] : i \in 1..Len(encoded)}
        \cup {<<plain>> \o encoded : plain \in PlainPayloads}

\* codec.encode(payloads) is called in process: Sealer.create is called with
\* the codec's own signing key and the recipient keys of the options
CodecEncode(x) ==
    /\ codec.encodeCall.pc = "idle"
    /\ codec.reply = NoReply
    /\ ~codec.sent
    /\ \E payloads \in EncodeBatches :
          codec' = [codec EXCEPT !.encodeCall = codecEnter(x, payloads)]
    /\ createCalls' = [createCalls EXCEPT !["encode"] =
          createEnter("Sealer", SigningJWK(x, suite, TRUE),
                      CodecRecipientJwks(codec.options), "jwks")]
    /\ UNCHANGED <<suite, sealer, unsealers, sealCalls, wire, touched, unsealCalls>>

\* POST /encode reaches the server that runs x's codec
PostEncode(x) ==
    /\ codec.encodeCall.pc = "idle"
    /\ codec.reply = NoReply
    /\ ~codec.sent
    /\ \E body \in {Body([i \in 1..Len(b) |-> toJSON(b[i])]) : b \in EncodeBatches}
                        \cup {MalformedBody} :
          /\ codec' = [codec EXCEPT
                !.reply = routeEnter("encode", x, body),
                !.encodeCall = IF body.has THEN codecEnter(x, requestPayloads(body)) ELSE @]
          /\ createCalls' = [createCalls EXCEPT !["encode"] =
                IF body.has
                THEN createEnter("Sealer", SigningJWK(x, suite, TRUE),
                                 CodecRecipientJwks(codec.options), "jwks")
                ELSE @]
    /\ UNCHANGED <<suite, sealer, unsealers, sealCalls, wire, touched, unsealCalls>>

\* the encoded batch travels to a decoder
Deliver ==
    /\ codec.encodeCall.pc = "done"
    /\ codec.reply = NoReply
    /\ ~codec.sent
    /\ \E batch \in Deliveries(codec.encodeCall.result) :
          codec' = [codec EXCEPT !.batch = batch, !.sent = TRUE]
    /\ UNCHANGED <<createCalls, suite, sealer, unsealers, sealCalls, wire, touched, unsealCalls>>

\* a batch of payloads that no codec encoded reaches a decoder
DeliverPlain ==
    /\ codec.encodeCall.pc = "idle"
    /\ ~codec.sent
    /\ codec.reply = NoReply
    /\ \E plain \in PlainPayloads :
          codec' = [codec EXCEPT !.batch = <<plain>>, !.sent = TRUE]
    /\ UNCHANGED <<createCalls, suite, sealer, unsealers, sealCalls, wire, touched, unsealCalls>>

\* codec.decode(payloads) is called in process: Unsealer.create is called
\* with the codec's own decryption key and the sender keys of the options
CodecDecode(y) ==
    /\ codec.sent
    /\ codec.decodeCall.pc = "idle"
    /\ codec.reply = NoReply
    /\ codec' = [codec EXCEPT !.decodeCall = codecEnter(y, codec.batch)]
    /\ createCalls' = [createCalls EXCEPT !["decode"] =
          createEnter("Unsealer", EncryptionJWK(y, suite, TRUE),
                      CodecSenderJwks(codec.options), "jwks")]
    /\ UNCHANGED <<suite, sealer, unsealers, sealCalls, wire, touched, unsealCalls>>

\* POST /decode reaches the server that runs y's codec
PostDecode(y) ==
    /\ codec.sent
    /\ codec.decodeCall.pc = "idle"
    /\ codec.reply = NoReply
    /\ \E body \in {Body([i \in 1..Len(codec.batch) |-> toJSON(codec.batch[i])]),
                     MalformedBody} :
          /\ codec' = [codec EXCEPT
                !.reply = routeEnter("decode", y, body),
                !.decodeCall = IF body.has THEN codecEnter(y, requestPayloads(body)) ELSE @]
          /\ createCalls' = [createCalls EXCEPT !["decode"] =
                IF body.has
                THEN createEnter("Unsealer", EncryptionJWK(y, suite, TRUE),
                                 CodecSenderJwks(codec.options), "jwks")
                ELSE @]
    /\ UNCHANGED <<suite, sealer, unsealers, sealCalls, wire, touched, unsealCalls>>

\* The importKey that the create call of an encode call awaits settles.
\* When create returns with it, encode goes on in the same turn: the kids of
\* the recipient keys are listed, payloads.map calls sealer.seal for every
\* payload, and Promise.all is awaited; when create throws, encode rejects.
EncodeImportKey ==
    /\ createCalls["encode"].pc = "importKey"
    /\ \E created \in {createImported(createCalls["encode"], suite)} :
          /\ createCalls' = [createCalls EXCEPT !["encode"] = created]
          /\ IF created.pc = "importKey"
             THEN UNCHANGED <<codec, sealCalls>>
             ELSE /\ sealCalls' = sealCallsMapped(sealCalls, created, codec.encodeCall,
                                                  codec.options.recipients)
                  /\ \E mapped \in {encodeCreated(codec.encodeCall, created)} :
                        codec' = encodeSettled(
                            [codec EXCEPT !.encodeCall = mapped,
                                          !.reply = routeSettled(@, "encode", mapped)],
                            sealCalls')
    /\ UNCHANGED <<suite, sealer, unsealers, wire, touched, unsealCalls>>

\* The same for a decode call: payloads.map returns the payloads that are
\* passed through, throws for data that is no JSON text, and calls
\* unsealer.unseal for the others.
DecodeImportKey ==
    /\ createCalls["decode"].pc = "importKey"
    /\ \E created \in {createImported(createCalls["decode"], suite)} :
          /\ createCalls' = [createCalls EXCEPT !["decode"] = created]
          /\ IF created.pc = "importKey"
             THEN UNCHANGED <<codec, unsealCalls>>
             ELSE \E mapped \in {decodeCreated(codec.decodeCall, created)} :
                     /\ unsealCalls' = unsealCallsMapped(unsealCalls, created, mapped)
                     /\ codec' = decodeSettled(
                            [codec EXCEPT !.decodeCall = mapped,
                                          !.reply = routeSettled(@, "decode", mapped)],
                            unsealCalls')
    /\ UNCHANGED <<suite, sealer, unsealers, wire, touched, sealCalls>>

-----------------------------------------------------------------------------
(* The system *)

Init ==
    /\ createCalls = [w \in Creators |-> IdleCreate]
    /\ suite \in Suites
    /\ sealer = SealerCreate(SigningJWK("alice", suite, TRUE),
                             <<EncryptionJWK("bob", suite, FALSE),
                               EncryptionJWK("carol", suite, FALSE),
                               EncryptionJWK(PrototypeKid, suite, FALSE)>>, suite)
    /\ unsealers = [r \in Recipients |->
          UnsealerCreate(EncryptionJWK(r, suite, TRUE),
                         IF r = "bob"
                         THEN <<SigningJWK("alice", suite, FALSE), SigningJWK("amy", suite, FALSE)>>
                         ELSE <<SigningJWK("alice", suite, FALSE)>>,
                         suite)]
    /\ sealCalls = [c \in SealIds |-> IdleSeal]
    /\ wire = NoEnvelope
    /\ touched = {}
    /\ unsealCalls = [u \in Recipients |-> IdleUnseal]
    /\ codec = IdleCodec

Next ==
    \/ \E c \in SealIds : SealerSeal(c)
    \/ \E c \in SealIds : SealCore(c)
    \/ \E c \in SealIds : GenerateCEK(c)
    \/ \E c \in SealIds : EncryptPayload(c)
    \/ \E c \in SealIds : EncryptCEK(c)
    \/ \E c \in SealIds : SignEnvelope(c)
    \/ \E c \in SealIds : SealDigest(c)
    \/ \E c \in SealIds : Send(c)
    \/ \E s \in Senders : Forge(s)
    \/ TamperKid
    \/ TamperCek
    \/ TamperPayload
    \/ TamperSignature
    \/ TamperCtx
    \/ \E u \in Recipients : UnsealerUnseal(u)
    \/ \E u \in Recipients : UnsealCore(u)
    \/ \E u \in Recipients : VerifyEnvelope(u)
    \/ \E u \in Recipients : DecryptCEK(u)
    \/ \E u \in Recipients : UnsealDigest(u)
    \/ \E u \in Recipients : Decrypt(u)

Spec == Init /\ [][Next]_vars

-----------------------------------------------------------------------------
(* Properties *)

Finished(call) == call.pc \in {"done", "failed"}

\* the bytes a caller means by a plaintext: a string stands for its UTF-8 encoding
ExpectedBytes(p) == IF p.str THEN TextEncode(p.v) ELSE p.v

\* a seal call that ended before any key was generated or used
NothingSealed(call) ==
    /\ call.pc = "failed"
    /\ call.log = <<>>
    /\ call.cek = <<>>
    /\ call.encryptedPayload = NoBlob
    /\ call.encryptedCEKs = NoCEKs
    /\ call.result = NoEnvelope

\* the sender keys the caller of unseal call u holds
SenderKeysOf(u) ==
    IF unsealCalls[u].api = "Unsealer.unseal"
    THEN unsealers[u].senderKeys
    ELSE unsealCalls[u].senderKeys

\* unseal call u works on the envelope seal call c returned, as returned
Delivered(c, u) ==
    /\ sealCalls[c].pc = "done"
    /\ unsealCalls[u].pc # "idle"
    /\ unsealCalls[u].envelope = sealCalls[c].result

\* C1: Round trip.  Whatever Sealer.seal made of plaintext P for a non-empty
\* list of known recipients, each of these recipients whose Unsealer knows the
\* sender unseals with success, to the bytes of P.
C1_RoundTrip ==
    \A c \in SealIds, u \in Recipients :
        ( /\ sealCalls[c].api = "Sealer.seal"
          /\ Delivered(c, u)
          /\ Finished(unsealCalls[u])
          /\ u \in Range(sealCalls[c].requested)
          /\ sealCalls[c].senderKid \in DOMAIN SenderKeysOf(u) )
        => /\ unsealCalls[u].pc = "done"
           /\ unsealCalls[u].result = ExpectedBytes(sealCalls[c].payload)

\* The round trip where it does hold: RSA keys and P-256 keys.
RoundTripOffP384 == suite # "P-384" => C1_RoundTrip

\* the six defects of an envelope as one Unsealer sees them, in the order the
\* steps of unseal are said to look for them; 0 when there is none
EarliestDefect(u, env) ==
    LET inst == unsealers[u]
        kid == inst.privateKid
        senderKeys == SenderKeysOf(u)
    IN  IF env.kid \notin DOMAIN senderKeys THEN 1
        ELSE IF ~Verify(canonicalize([kid |-> env.kid, cek |-> env.cek, payload |-> env.payload]),
                        env.signature.b, senderKeys[env.kid]) THEN 2
        ELSE IF kid \notin DOMAIN env.cek THEN 3
        ELSE IF ~decryptCEKSucceeds(env.cek[kid], inst.privateKey) THEN 4
        ELSE IF Sha256(ctxInput(env.payload.b)) # env.ctx.b THEN 5
        ELSE IF ~AesGcmOpens(env.payload.b, env.cek[kid].b.cek) THEN 6
        ELSE 0

ErrorOfDefect(d) ==
    CASE d = 1 -> <<"Unknown sender key">>
      [] d = 2 -> <<"Invalid envelope signature">>
      [] d = 3 -> <<"No CEK found for recipient">>
      [] d = 4 -> <<"KeyUnwrapFailure">>
      [] d = 5 -> <<"Invalid CTX tag">>
      [] d = 6 -> <<"AuthenticationFailure">>

\* p is q or the beginning of q
IsPrefix(p, q) == Len(p) <= Len(q) /\ p = SubSeq(q, 1, Len(p))

\* the provider calls of an unseal call that runs to its end: the signature
\* check, the calls of the unwrap, the commitment, the decryption
UnsealSteps(recipientKey) ==
    <<"verify">> \o decryptCEKCalls(recipientKey) \o <<"digest", "decrypt">>

\* the payload was handed to the provider for decryption: a decrypt behind
\* the digest (the RSA-OAEP unwrap is a decrypt as well, before it)
PayloadDecrypted(log) ==
    \E j \in 1..Len(log) : log[j] = "decrypt" /\ \E m \in 1..(j - 1) : log[m] = "digest"

\* unsealCore was given a kid that its sender keys do not have but inherit
LooksUpInherited(u) ==
    /\ unsealCalls[u].api = "unsealCore"
    /\ unsealCalls[u].envelope.kid \in InheritedMembers \ DOMAIN unsealCalls[u].senderKeys

\* C2: unseal goes sender lookup, signature, CEK entry, unwrap, commitment,
\* decryption, in this order: the provider is used in the order verify, the
\* calls of the unwrap, digest, decrypt, and a finished call reports the error of the
\* earliest step that has something to object to, or succeeds when none has.
C2_FixedOrder ==
    \A u \in Recipients :
        LET call == unsealCalls[u]
            d == EarliestDefect(u, call.envelope)
        IN  /\ IsPrefix(call.log, UnsealSteps(call.recipientKey))
            /\ Finished(call) =>
                  IF d = 0 THEN call.pc = "done"
                  ELSE call.pc = "failed" /\ call.error = ErrorOfDefect(d)

\* C3: Tamper detection.  An envelope that Sealer or sealCore returned and in
\* which exactly one of kid, a cek entry, payload, signature, ctx was changed
\* on the way is not unsealed by anybody: every unseal of it fails.
C3_TamperDetection ==
    \A c \in SealIds, u \in Recipients :
        ( /\ sealCalls[c].pc = "done"
          /\ Cardinality(touched) = 1
          /\ Finished(unsealCalls[u]) )
        => unsealCalls[u].pc = "failed"

\* C4: Cross-recipient consistency.  Two recipients that both unseal one and
\* the same envelope with success hold the same plaintext.
C4_CrossRecipientConsistency ==
    \A u1, u2 \in Recipients :
        ( /\ unsealCalls[u1].pc = "done"
          /\ unsealCalls[u2].pc = "done"
          /\ unsealCalls[u1].envelope = unsealCalls[u2].envelope )
        => unsealCalls[u1].result = unsealCalls[u2].result

\* The fixed order apart from step (3): the same statement for envelopes
\* that carry an entry for the caller and whose kid names nothing that the
\* sender keys given to unsealCore inherit.
FixedOrderWithEntry ==
    \A u \in Recipients :
        LET call == unsealCalls[u]
            d == EarliestDefect(u, call.envelope)
        IN  /\ IsPrefix(call.log, UnsealSteps(call.recipientKey))
            /\ (Finished(call) /\ d # 3 /\ ~LooksUpInherited(u)) =>
                  IF d = 0 THEN call.pc = "done"
                  ELSE call.pc = "failed" /\ call.error = ErrorOfDefect(d)

Count(q, x) == Cardinality({j \in 1..Len(q) : q[j] = x})

\* the provider calls of the wrap loop over the recipients in order
RECURSIVE WrapSteps(_, _)
WrapSteps(order, recipientKeys) ==
    IF order = <<>> THEN <<>>
    ELSE encryptCEKCalls(recipientKeys[Head(order)]) \o WrapSteps(Tail(order), recipientKeys)

\* the provider calls of a seal call that runs to its end: one CEK generated
\* and one payload encryption, the wraps, one signature, one digest
SealSteps(order, recipientKeys) ==
    <<"generateKey", "encrypt">> \o WrapSteps(order, recipientKeys) \o <<"sign", "digest">>

\* the wraps begun in a seal call: each exports one key, the CEK (RSA-OAEP)
\* or the ephemeral public key (ECDH)
WrapCount(log) == Count(log, "exportKey")

\* C5: Shared commitment.  A seal call for two recipients A and B generates
\* one CEK and encrypts the payload once; the wrapped blobs of A and B
\* differ; and A and B both unseal the envelope to the plaintext given.
C5_SharedCommitment ==
    \A c \in SealIds :
        LET call == sealCalls[c]
        IN  ( /\ call.api = "Sealer.seal"
              /\ call.pc = "done"
              /\ Cardinality(Range(call.requested)) = 2 )
            => /\ call.log = SealSteps(call.order, call.recipientKeys)
               /\ Count(call.log, "digest") = 1
               /\ \A a, b \in Range(call.requested) \cap DOMAIN call.result.cek :
                     a # b => call.result.cek[a] # call.result.cek[b]
               /\ \A u \in Range(call.requested) \cap Recipients :
                     ( /\ Delivered(c, u)
                       /\ Finished(unsealCalls[u])
                       /\ call.senderKid \in DOMAIN SenderKeysOf(u) )
                     => /\ unsealCalls[u].pc = "done"
                        /\ unsealCalls[u].result = ExpectedBytes(call.payload)

\* Shared commitment on the sealing side alone: one CEK, one encryption, one
\* digest, and distinct wrapped blobs.
SharedCommitmentSealed ==
    \A c \in SealIds :
        LET call == sealCalls[c]
        IN  (call.pc = "done" /\ Cardinality(Range(call.requested)) = 2)
            => /\ call.log = SealSteps(call.order, call.recipientKeys)
               /\ Count(call.log, "digest") = 1
               /\ \A a, b \in Range(call.requested) \cap DOMAIN call.result.cek :
                     a # b => call.result.cek[a] # call.result.cek[b]

\* C6: Recipient gating.  A recipient with no entry of its own in envelope.cek,
\* unsealing an envelope of a known sender whose signature verifies, fails with
\* 'No CEK found for recipient' after the signature check and before any
\* unwrap, and gets no plaintext.
C6_RecipientGating ==
    \A u \in Recipients :
        LET call == unsealCalls[u]
        IN  ( /\ Finished(call)
              /\ EarliestDefect(u, call.envelope) = 3 )
            => /\ call.pc = "failed"
               /\ call.error = <<"No CEK found for recipient">>
               /\ call.log = <<"verify">>
               /\ call.result = <<>>

\* C7: Pre-flight validation.  Sealer.seal fails with 'No recipients
\* specified' on an empty list and with 'Unknown recipient' naming the first
\* unknown id of the list when there is one, in both cases before a CEK is
\* generated, the payload encrypted, a CEK wrapped or anything signed.
C7_PreflightValidation ==
    \A c \in SealIds :
        LET call == sealCalls[c]
            kids == call.requested
            unknown == {j \in 1..Len(kids) : kids[j] \notin DOMAIN sealer.recipientKeys}
        IN  call.api = "Sealer.seal" =>
              /\ kids = <<>> =>
                    NothingSealed(call) /\ call.error = <<"No recipients specified">>
              /\ unknown # {} =>
                    /\ NothingSealed(call)
                    /\ \E j \in unknown :
                          /\ \A m \in unknown : j <= m
                          /\ call.error = <<"Unknown recipient", kids[j]>>

\* a call refused for an unknown id that stands after a known one, and one
\* refused for the first of two different unknown ids
C7_Witness ==
    \E c \in SealIds :
        LET call == sealCalls[c]
        IN  /\ call.api = "Sealer.seal"
            /\ call.pc = "failed"
            /\ Len(call.requested) = 2
            /\ call.requested[1] \in Strangers
            /\ call.requested[2] \in Strangers \ {call.requested[1]}
            /\ call.error = <<"Unknown recipient", call.requested[1]>>

\* the two mixed pairs, spelled out
MixedPair(senderAlg, recipientAlg) ==
    <<senderAlg, recipientAlg>> \in {<<"RSA-PSS", "ECDH">>, <<"ECDSA", "RSA-OAEP">>}

\* C8: Algorithm consistency on seal.  sealCore with an RSA-PSS signing key
\* and some ECDH recipient key, or an ECDSA signing key and some RSA-OAEP
\* recipient key, fails with 'Mixed key types not supported' before a CEK is
\* generated or anything encrypted, whatever the other recipient keys are.
C8_AlgorithmConsistency ==
    \A c \in SealIds :
        LET call == sealCalls[c]
        IN  ( /\ call.pc # "idle"
              /\ \E k \in DOMAIN call.recipientKeys :
                    MixedPair(call.senderKey.alg, call.recipientKeys[k].alg) )
            => NothingSealed(call) /\ call.error = <<"Mixed key types not supported">>

\* an ECDSA signer with one ECDH recipient and one RSA-OAEP recipient, refused
C8_Witness ==
    \E c \in SealIds :
        LET call == sealCalls[c]
        IN  /\ call.pc = "failed"
            /\ call.error = <<"Mixed key types not supported">>
            /\ call.senderKey.alg = "ECDSA"
            /\ {call.recipientKeys[k].alg : k \in DOMAIN call.recipientKeys}
                  = {"ECDH", "RSA-OAEP"}

\* C9: sealCore with a signing key that is neither RSA-PSS nor ECDSA, or a
\* recipient key that is neither RSA-OAEP nor ECDH, fails with 'Unsupported
\* key type' before the CEK is generated, the payload encrypted or the CEK
\* wrapped for anybody.
C9_ValidationBeforeKeyMaterial ==
    \A c \in SealIds :
        LET call == sealCalls[c]
        IN  ( /\ call.pc # "idle"
              /\ call.api = "sealCore"
              /\ DOMAIN call.recipientKeys # {}
              /\ \A k \in DOMAIN call.recipientKeys :
                    ~MixedPair(call.senderKey.alg, call.recipientKeys[k].alg)
              /\ \/ call.senderKey.alg \notin {"RSA-PSS", "ECDSA"}
                 \/ \E k \in DOMAIN call.recipientKeys :
                       call.recipientKeys[k].alg \notin {"RSA-OAEP", "ECDH"} )
            => NothingSealed(call) /\ call.error = <<"Unsupported key type">>

\* What the code does for such keys: the call does fail with 'Unsupported key
\* type' and returns no envelope, but only where the key is first used.
UnsupportedKeyRefusedLate ==
    \A c \in SealIds :
        LET call == sealCalls[c]
        IN  ( /\ Finished(call)
              /\ DOMAIN call.recipientKeys # {}
              /\ \A k \in DOMAIN call.recipientKeys :
                    ~MixedPair(call.senderKey.alg, call.recipientKeys[k].alg)
              /\ \/ call.senderKey.alg \notin {"RSA-PSS", "ECDSA"}
                 \/ \E k \in DOMAIN call.recipientKeys :
                       call.recipientKeys[k].alg \notin {"RSA-OAEP", "ECDH"} )
            => /\ call.pc = "failed"
               /\ call.error = <<"Unsupported key type">>
               /\ call.result = NoEnvelope
               /\ call.log # <<>>

\* C10: Unknown sender.  unseal of an envelope whose kid the Unsealer does not
\* know fails with 'Unknown sender key' at once: no signature is verified, no
\* CEK unwrapped, nothing decrypted, whatever the other fields hold.
C10_UnknownSender ==
    \A u \in Recipients :
        LET call == unsealCalls[u]
        IN  ( /\ call.pc # "idle"
              /\ call.envelope.kid \notin DOMAIN SenderKeysOf(u) )
            => /\ call.pc = "failed"
               /\ call.error = <<"Unknown sender key">>
               /\ call.log = <<>>
               /\ call.cek = <<>>
               /\ call.result = <<>>

\* Unknown sender where the lookup finds nothing: Unsealer.unseal, which
\* looks the kid up in its Map, and unsealCore for a kid that names nothing
\* its sender keys inherit.
UnknownSenderByOwnKeys ==
    \A u \in Recipients :
        LET call == unsealCalls[u]
        IN  ( /\ call.pc # "idle"
              /\ call.envelope.kid \notin DOMAIN SenderKeysOf(u)
              /\ ~LooksUpInherited(u) )
            => /\ call.pc = "failed"
               /\ call.error = <<"Unknown sender key">>
               /\ call.log = <<>>
               /\ call.cek = <<>>
               /\ call.result = <<>>

\* unsealCore given an envelope whose kid is "__proto__" and sender keys that
\* do not hold that kid: the call ends with a TypeError
InheritedKidTypeError ==
    \E u \in Recipients :
        /\ unsealCalls[u].api = "unsealCore"
        /\ unsealCalls[u].envelope.kid = PrototypeKid
        /\ PrototypeKid \notin DOMAIN unsealCalls[u].senderKeys
        /\ unsealCalls[u].pc = "failed"
        /\ unsealCalls[u].error = <<"TypeError">>
        /\ unsealCalls[u].log = <<>>

\* the same for a kid that names an inherited function, "isPrototypeOf"
InheritedFunctionTypeError ==
    \E u \in Recipients :
        /\ unsealCalls[u].api = "unsealCore"
        /\ unsealCalls[u].envelope.kid = "isPrototypeOf"
        /\ unsealCalls[u].pc = "failed"
        /\ unsealCalls[u].error = <<"TypeError">>
        /\ unsealCalls[u].log = <<>>

\* an envelope refused for its kid although its ctx is off as well
UnknownSenderRefused ==
    \E u \in Recipients :
        /\ unsealCalls[u].api = "Unsealer.unseal"
        /\ unsealCalls[u].pc = "failed"
        /\ unsealCalls[u].error = <<"Unknown sender key">>
        /\ unsealCalls[u].envelope.ctx.b.mod = 1

\* C11: Signature gate.  When the signature does not verify over canonical
\* {kid, cek, payload} under the key registered for envelope.kid, unseal fails
\* with 'Invalid envelope signature' and goes no further: no CEK is
\* unwrapped, no ctx computed, nothing decrypted.
C11_SignatureGate ==
    \A u \in Recipients :
        LET call == unsealCalls[u]
            env == call.envelope
            keys == SenderKeysOf(u)
        IN  ( /\ call.pc # "idle"
              /\ env.kid \in DOMAIN keys
              /\ ~Verify(canonicalize([kid |-> env.kid, cek |-> env.cek,
                                       payload |-> env.payload]),
                         env.signature.b, keys[env.kid]) )
            => /\ call.pc \in {"verifyEnvelope", "failed"}
               /\ call.pc = "failed" =>
                     /\ call.error = <<"Invalid envelope signature">>
                     /\ call.log = <<"verify">>
               /\ Range(call.log) \subseteq {"verify"}
               /\ call.cek = <<>>
               /\ call.result = <<>>

\* a caller with an entry of its own in cek, refused at the signature
C11_Witness ==
    \E u \in Recipients :
        /\ unsealCalls[u].pc = "failed"
        /\ unsealCalls[u].error = <<"Invalid envelope signature">>
        /\ touched = {"signature"}
        /\ u \in DOMAIN unsealCalls[u].envelope.cek

\* C12: Commitment gate.  When the signature verifies and the caller's CEK
\* unwraps but the ctx of the envelope is not the one recomputed from its
\* payload, unseal fails with 'Invalid CTX tag' and the payload is never
\* decrypted.
C12_CommitmentGate ==
    \A u \in Recipients :
        LET call == unsealCalls[u]
        IN  (call.pc # "idle" /\ EarliestDefect(u, call.envelope) = 5)
            => /\ call.pc # "decrypt"
               /\ ~PayloadDecrypted(call.log)
               /\ call.result = <<>>
               /\ Finished(call) =>
                     /\ call.pc = "failed"
                     /\ call.error = <<"Invalid CTX tag">>
                     /\ call.log = <<"verify">> \o decryptCEKCalls(call.recipientKey)
                                       \o <<"digest">>

\* an EC recipient whose CEK unwrapped, refused at the commitment
C12_Witness ==
    \E u \in Recipients :
        /\ suite = "P-256"
        /\ unsealCalls[u].pc = "failed"
        /\ unsealCalls[u].error = <<"Invalid CTX tag">>
        /\ unsealCalls[u].cek # <<>>
        /\ unsealCalls[u].envelope.ctx.b.mod = 1

\* the message under the signature of an envelope: the canonical form of its
\* kid, cek and payload, and nothing else
SignedTriple(env) ==
    canonicalize([kid |-> env.kid, cek |-> env.cek, payload |-> env.payload])

\* the envelope as it was before its ctx was changed
WithOwnCtx(env) == [env EXCEPT !.ctx = toBase64(Sha256(ctxInput(env.payload.b)))]

\* seal signs the triple
SealSignsTriple ==
    \A c \in SealIds :
        LET call == sealCalls[c]
        IN  call.pc \in {"digest", "done"} =>
               call.result.signature.b = Sign(SignedTriple(call.result), call.senderKey)

\* unseal verifies the triple: a change of kid, of a cek entry or of the
\* payload never gets past the signature check
TripleChangeRefused ==
    \A u \in Recipients :
        LET call == unsealCalls[u]
        IN  (call.pc # "idle" /\ touched \in {{"kid"}, {"cek"}, {"payload"}})
            => /\ call.pc \in {"verifyEnvelope", "failed"}
               /\ call.pc = "failed" =>
                     call.error \in {<<"Unknown sender key">>, <<"Invalid envelope signature">>,
                                     <<"TypeError">>}
               /\ call.error = <<"TypeError">> => LooksUpInherited(u)
               /\ Range(call.log) \subseteq {"verify"}

\* a change of ctx alone is not seen by the signature check
CtxChangePassesSignature ==
    \A u \in Recipients :
        LET call == unsealCalls[u]
            env == call.envelope
            keys == SenderKeysOf(u)
        IN  ( /\ call.pc \notin {"idle", "verifyEnvelope"}
              /\ touched = {"ctx"}
              /\ env.kid \in DOMAIN keys
              /\ Verify(SignedTriple(env), env.signature.b, keys[env.kid]) )
            => /\ call.log # <<>>
               /\ call.log[1] = "verify"
               /\ call.error # <<"Invalid envelope signature">>

\* C13: the signed message is the canonical form of {kid, cek, payload}, never
\* of ctx or signature, on both sides: a change of kid, of a cek entry or of
\* the payload fails the signature check, while a change of ctx alone passes
\* it and is rejected by the commitment check, and only there.
C13_SignedTriple ==
    /\ SealSignsTriple
    /\ TripleChangeRefused
    /\ CtxChangePassesSignature
    /\ \A u \in Recipients :
          LET call == unsealCalls[u]
          IN  ( /\ Finished(call)
                /\ touched = {"ctx"}
                /\ EarliestDefect(u, WithOwnCtx(call.envelope)) = 0 )
              => /\ call.pc = "failed"
                 /\ call.error = <<"Invalid CTX tag">>

\* The scope of the signature where ctx is changed in its bytes: the same
\* statement for every change of ctx that changes what the text decodes to.
SignatureScope ==
    /\ SealSignsTriple
    /\ TripleChangeRefused
    /\ CtxChangePassesSignature
    /\ \A u \in Recipients :
          LET call == unsealCalls[u]
          IN  ( /\ Finished(call)
                /\ touched = {"ctx"}
                /\ call.envelope.ctx.b.mod = 1
                /\ EarliestDefect(u, WithOwnCtx(call.envelope)) = 0 )
              => /\ call.pc = "failed"
                 /\ call.error = <<"Invalid CTX tag">>

\* C14: Envelope invariants at creation.  Every envelope Sealer.seal returns
\* carries the sealer's signing key id as kid, a non-empty cek map whose keys
\* are exactly the requested recipient ids, all of them known to the Sealer,
\* and a payload of 12 + |plaintext| + 16 bytes.
C14_EnvelopeInvariants ==
    \A c \in SealIds :
        LET call == sealCalls[c]
            env == call.result
        IN  (call.api = "Sealer.seal" /\ call.pc = "done")
            => /\ env.kid = sealer.privateKid
               /\ DOMAIN env.cek # {}
               /\ DOMAIN env.cek = Range(call.requested)
               /\ DOMAIN env.cek \subseteq DOMAIN sealer.recipientKeys
               /\ env.payload.b.len = 12 + Len(ExpectedBytes(call.payload)) + 16
               /\ env.payload.b.len >= 28

\* The same for requests that do not name "__proto__".
EnvelopeInvariantsOfPlainKids ==
    \A c \in SealIds :
        LET call == sealCalls[c]
            env == call.result
        IN  ( /\ call.api = "Sealer.seal"
              /\ call.pc = "done"
              /\ PrototypeKid \notin Range(call.requested) )
            => /\ env.kid = sealer.privateKid
               /\ DOMAIN env.cek # {}
               /\ DOMAIN env.cek = Range(call.requested)
               /\ DOMAIN env.cek \subseteq DOMAIN sealer.recipientKeys
               /\ env.payload.b.len = 12 + Len(ExpectedBytes(call.payload)) + 16
               /\ env.payload.b.len >= 28

-----------------------------------------------------------------------------
(* Several calls at once on one Sealer and one Unsealer.  Each await of a   *)
(* call is a point where another call may run.                              *)

ConcurrentSealIds == {"s1", "s2"}

ConcurrentPlaintexts == {[str |-> TRUE, v |-> <<233>>], [str |-> FALSE, v |-> <<>>]}
ConcurrentRecipientLists == {<<"bob">>, <<"carol", "bob">>}

\* Sealer.seal called while other calls are under way
SealerSealConcurrently(c) ==
    /\ sealCalls[c].pc = "idle"
    /\ \E payload \in ConcurrentPlaintexts, recipientKids \in ConcurrentRecipientLists :
          sealCalls' = [sealCalls EXCEPT ![c] =
              [SealerSealEnter(sealer, payload, recipientKids) EXCEPT
                  !.api = "Sealer.seal", !.requested = recipientKids]]
    /\ UNCHANGED <<codec, createCalls, suite, sealer, unsealers, wire, touched, unsealCalls>>

\* Unsealer.unseal called on the envelope a seal call returned
UnsealerUnsealReturned(u, c) ==
    /\ unsealCalls[u].pc = "idle"
    /\ sealCalls[c].pc = "done"
    /\ unsealCalls' = [unsealCalls EXCEPT ![u] =
          [UnsealerUnsealEnter(unsealers[u], sealCalls[c].result) EXCEPT
              !.api = "Unsealer.unseal"]]
    /\ UNCHANGED <<codec, createCalls, suite, sealer, unsealers, sealCalls, wire, touched>>

\* one Sealer (alice's) and one Unsealer (bob's); both unseal calls are made
\* on that one Unsealer
InitConcurrent ==
    /\ createCalls = [w \in Creators |-> IdleCreate]
    /\ suite \in Suites
    /\ sealer = SealerCreate(SigningJWK("alice", suite, TRUE),
                             <<EncryptionJWK("bob", suite, FALSE),
                               EncryptionJWK("carol", suite, FALSE),
                               EncryptionJWK(PrototypeKid, suite, FALSE)>>, suite)
    /\ unsealers = [r \in Recipients |->
          UnsealerCreate(EncryptionJWK("bob", suite, TRUE),
                         <<SigningJWK("alice", suite, FALSE)>>, suite)]
    /\ sealCalls = [c \in ConcurrentSealIds |-> IdleSeal]
    /\ wire = NoEnvelope
    /\ touched = {}
    /\ unsealCalls = [u \in Recipients |-> IdleUnseal]
    /\ codec = IdleCodec

NextConcurrent ==
    \/ \E c \in ConcurrentSealIds : SealerSealConcurrently(c)
    \/ \E c \in ConcurrentSealIds : GenerateCEK(c)
    \/ \E c \in ConcurrentSealIds : EncryptPayload(c)
    \/ \E c \in ConcurrentSealIds : EncryptCEK(c)
    \/ \E c \in ConcurrentSealIds : SignEnvelope(c)
    \/ \E c \in ConcurrentSealIds : SealDigest(c)
    \/ \E u \in Recipients, c \in ConcurrentSealIds : UnsealerUnsealReturned(u, c)
    \/ \E u \in Recipients : VerifyEnvelope(u)
    \/ \E u \in Recipients : DecryptCEK(u)
    \/ \E u \in Recipients : UnsealDigest(u)
    \/ \E u \in Recipients : Decrypt(u)

SpecConcurrent == InitConcurrent /\ [][NextConcurrent]_vars

\* every CEK wrapped so far: the call and the recipient it was wrapped for
Wraps == {w \in (DOMAIN sealCalls) \X (Recipients \cup {PrototypeKid}) :
             w[2] \in DOMAIN sealCalls[w[1]].encryptedCEKs}

WrappedBlob(w) == sealCalls[w[1]].encryptedCEKs[w[2]].b

\* C15: Ephemeral freshness (EC).  Every wrap for an EC recipient has an
\* ephemeral key pair of its own: the ephemeral public keys in front of any
\* two wrapped blobs differ, be they of two recipients of one seal call or of
\* one recipient in two seal calls.
C15_EphemeralFreshness ==
    \A w1, w2 \in Wraps :
        (w1 # w2 /\ WrappedBlob(w1).tag = "ecdh" /\ WrappedBlob(w2).tag = "ecdh")
        => WrappedBlob(w1).eph # WrappedBlob(w2).eph

\* two finished seal calls for EC recipients: bob in both, carol in one
C15_Witness ==
    /\ suite # "RSA"
    /\ \A c \in DOMAIN sealCalls : sealCalls[c].pc = "done"
    /\ \A c \in DOMAIN sealCalls : "bob" \in DOMAIN sealCalls[c].result.cek
    /\ \E c \in DOMAIN sealCalls : "carol" \in DOMAIN sealCalls[c].result.cek

\* the envelope a seal call returns when nothing else runs: made of the key
\* generated in that call and of the call's own arguments
EnvelopeOfCall(c) ==
    LET call == sealCalls[c]
        own == Range(OwnProperties(call.requested))
        payload == toBase64(AesGcmEncrypt(call.cek, <<"iv", c>>, ExpectedBytes(call.payload)))
        ceks == [k \in own |->
                    toBase64(IF sealer.recipientKeys[k].alg = "RSA-OAEP"
                             THEN RsaOaepEncrypt(call.cek, sealer.recipientKeys[k])
                             ELSE EcdhWrap(call.cek, sealer.recipientKeys[k],
                                           <<"eph", c, k>>, <<"iv", c, k>>))]
        unsigned == [kid |-> sealer.privateKid, cek |-> ceks, payload |-> payload]
    IN  [kid |-> unsigned.kid, cek |-> ceks, payload |-> payload,
         signature |-> toBase64(Sign(SignedTriple(unsigned), sealer.privateKey)),
         ctx |-> toBase64(Sha256(ctxInput(payload.b)))]

\* C16: Independence of concurrent calls.  However the steps of several seal
\* and unseal calls on one Sealer and one Unsealer interleave, each seal call
\* works with the CEK generated in that call and with no other: the CEK
\* wrapped in its envelope is the one its payload was encrypted under and is
\* not the CEK of another call, and each call ends as it would when run
\* alone.
C16_IndependentCalls ==
    /\ \A c1, c2 \in DOMAIN sealCalls :
          (c1 # c2 /\ sealCalls[c1].cek # <<>>) => sealCalls[c1].cek # sealCalls[c2].cek
    /\ \A c \in DOMAIN sealCalls :
          LET call == sealCalls[c]
          IN  /\ \A k \in DOMAIN call.encryptedCEKs : call.encryptedCEKs[k].b.cek = call.cek
              /\ call.encryptedPayload # NoBlob =>
                    call.encryptedPayload.open
                        = {[key |-> call.cek, pt |-> ExpectedBytes(call.payload)]}
              /\ call.pc = "done" => call.result = EnvelopeOfCall(c)
    /\ \A u \in DOMAIN unsealCalls :
          LET call == unsealCalls[u]
              d == EarliestDefect(u, call.envelope)
          IN  call.pc # "idle" =>
                 \E c \in DOMAIN sealCalls :
                    /\ call.envelope = sealCalls[c].result
                    /\ call.cek \in {<<>>, sealCalls[c].cek}
                    /\ Finished(call) =>
                          IF d = 0
                          THEN /\ call.pc = "done"
                               /\ call.result = ExpectedBytes(sealCalls[c].payload)
                          ELSE /\ call.pc = "failed"
                               /\ d # 3 => call.error = ErrorOfDefect(d)

\* one seal call still wrapping while the envelope of the other is unsealed
\* by two calls on the one Unsealer, one finished and one under way
C16_Witness ==
    \E c1, c2 \in DOMAIN sealCalls :
        /\ c1 # c2
        /\ sealCalls[c1].pc = "done"
        /\ sealCalls[c2].pc = "encryptCEK"
        /\ \E u1, u2 \in DOMAIN unsealCalls :
              /\ u1 # u2
              /\ unsealCalls[u1].pc = "done"
              /\ unsealCalls[u1].envelope = sealCalls[c1].result
              /\ unsealCalls[u2].pc = "digest"


(***************************************************************************)
(* Construction: the create calls, given key descriptors of any curve      *)
(***************************************************************************)


\* ECPublicNamedJWK[] / RSAPublicNamedJWK[] handed to create
RecipientJwkLists(s) ==
    SeqsUpTo({EncryptionJWK(k, t, FALSE) : k \in Recipients, t \in SuitesOfFamily(s)},
             MaxRecipients)
SenderJwkLists(s) ==
    SeqsUpTo({SigningJWK(k, t, FALSE) : k \in Senders, t \in SuitesOfFamily(s)},
             MaxRecipients)

\* the instance variable a creator keeps what create returned in
KindOf(w) == IF w = "alice" THEN "Sealer" ELSE "Unsealer"

\* ECSealer.create(privateJwk, recipientKeys) is called by alice
CreateSealer ==
    /\ createCalls["alice"].pc = "idle"
    /\ \E jwks \in RecipientJwkLists(suite) :
          createCalls' = [createCalls EXCEPT !["alice"] =
              createEnter("Sealer", SigningJWK("alice", suite, TRUE), jwks, "array")]
    /\ UNCHANGED <<codec, suite, sealer, unsealers, sealCalls, wire, touched, unsealCalls>>

\* ECUnsealer.create(privateJwk, senderKeys) is called by recipient r
CreateUnsealer(r) ==
    /\ createCalls[r].pc = "idle"
    /\ \E jwks \in SenderJwkLists(suite) :
          createCalls' = [createCalls EXCEPT ![r] =
              createEnter("Unsealer", EncryptionJWK(r, suite, TRUE), jwks, "array")]
    /\ UNCHANGED <<codec, suite, sealer, unsealers, sealCalls, wire, touched, unsealCalls>>

\* the importKey that the create call of w awaits settles; the caller keeps
\* the instance when create returns one
ImportKey(w) ==
    /\ createCalls[w].pc = "importKey"
    /\ \E after \in {createImported(createCalls[w], suite)} :
          /\ createCalls' = [createCalls EXCEPT ![w] = after]
          /\ sealer' = IF after.pc = "done" /\ after.kind = "Sealer"
                       THEN after.result ELSE sealer
          /\ unsealers' = IF after.pc = "done" /\ after.kind = "Unsealer"
                          THEN [unsealers EXCEPT ![w] = after.result] ELSE unsealers
    /\ UNCHANGED <<codec, suite, sealCalls, wire, touched, unsealCalls>>

InitCreate ==
    /\ createCalls = [w \in Creators |-> IdleCreate]
    /\ suite \in Suites
    /\ sealer = NoInstance
    /\ unsealers = [r \in Recipients |-> NoInstance]
    /\ sealCalls = [c \in SealIds |-> IdleSeal]
    /\ wire = NoEnvelope
    /\ touched = 0
    /\ unsealCalls = [u \in Recipients |-> IdleUnseal]
    /\ codec = IdleCodec

NextCreate ==
    \/ CreateSealer
    \/ \E r \in Recipients : CreateUnsealer(r)
    \/ \E w \in Creators : ImportKey(w)

SpecCreate == InitCreate /\ [][NextCreate]_vars

\* the curves of the keys an instance holds
CurvesOfKeys(keys) == {keys[k].crv : k \in DOMAIN keys}
CurvesHeld(instance) ==
    {instance.privateKey.crv}
        \cup (IF "recipientKeys" \in DOMAIN instance
              THEN CurvesOfKeys(instance.recipientKeys)
              ELSE CurvesOfKeys(instance.senderKeys))

\* the descriptors of a create call name a curve other than the private key's
NamesOtherCurve(call) ==
    \E j \in 1..Len(call.jwks) : call.jwks[j].crv # call.privateJwk.crv

\* the first descriptor of a create call that names another curve, or 0
FirstOtherCurve(call) ==
    LET other == {j \in 1..Len(call.jwks) : call.jwks[j].crv # call.privateJwk.crv}
    IN  IF other = {} THEN 0 ELSE CHOOSE j \in other : \A m \in other : j <= m

CreateEnded(call) == call.pc \in {"done", "failed"}

\* C17: an EC create call given a key of another curve than its private key
\* fails with "All keys must use the same curve" and returns no instance, for
\* the Sealer and for the Unsealer alike; so every EC instance there is holds
\* keys of one curve only.  A create call that fails does so when its loop
\* reaches the first such key, with the keys before it imported; a call given
\* keys of its own curve alone returns an instance.
C17_CurveUniformity ==
    /\ \A w \in Creators :
          LET call == createCalls[w]
          IN  (call.pc # "idle" /\ FamilyOf(suite) = "EC" /\ NamesOtherCurve(call))
                 => /\ call.pc # "done"
                    /\ call.result = NoInstance
                    /\ call.n <= FirstOtherCurve(call)
                    /\ IF w = "alice" THEN sealer = NoInstance ELSE unsealers[w] = NoInstance
                    /\ call.pc = "failed"
                          => /\ call.error = <<"All keys must use the same curve">>
                             /\ call.n = FirstOtherCurve(call)
    /\ \A w \in Creators :
          LET call == createCalls[w]
          IN  (call.pc # "idle" /\ ~NamesOtherCurve(call))
                 => /\ call.pc # "failed"
                    /\ call.pc = "done"
                          => /\ IsInstance(call.result)
                             /\ call.n = 1 + Len(call.jwks)
    /\ FamilyOf(suite) = "EC"
          => /\ IsInstance(sealer) => Cardinality(CurvesHeld(sealer)) = 1
             /\ \A r \in Recipients :
                   IsInstance(unsealers[r]) => Cardinality(CurvesHeld(unsealers[r])) = 1

\* a Sealer create refused for its second key only, an Unsealer create refused,
\* and an Unsealer create of one curve that returned its instance
C17_Witness ==
    /\ FamilyOf(suite) = "EC"
    /\ createCalls["alice"].pc = "failed"
    /\ Len(createCalls["alice"].jwks) = 2
    /\ createCalls["alice"].jwks[1].crv = createCalls["alice"].privateJwk.crv
    /\ createCalls["alice"].jwks[2].crv # createCalls["alice"].privateJwk.crv
    /\ sealer = NoInstance
    /\ createCalls["bob"].pc = "failed"
    /\ unsealers["bob"] = NoInstance
    /\ createCalls["carol"].pc = "done"
    /\ createCalls["carol"].jwks # <<>>
    /\ IsInstance(unsealers["carol"])

\* what a create call returned or threw is what create gives from call to
\* return
CreateStepsAgree ==
    \A w \in Creators :
        LET call == createCalls[w]
            whole == IF call.kind = "Sealer"
                     THEN SealerCreate(call.privateJwk, call.jwks, suite)
                     ELSE UnsealerCreate(call.privateJwk, call.jwks, suite)
        IN  /\ call.pc = "done" => call.result = whole
            /\ call.pc = "failed" => call.error = whole.error

\* two create calls are under way together, each with an import behind it
CreatesInterleaved ==
    /\ createCalls["alice"].pc = "importKey"
    /\ createCalls["alice"].n = 2
    /\ createCalls["bob"].pc = "importKey"
    /\ createCalls["bob"].n = 3

(***************************************************************************)
(* The ephemeral-key prefix of an EC wrapped CEK                           *)
(***************************************************************************)

\* the EC wrapped CEKs a finished Sealer.seal call made for recipients that
\* hold an Unsealer: <<call, recipient>>
EcWrapsMade ==
    {w \in SealIds \X Recipients :
        /\ FamilyOf(suite) = "EC"
        /\ sealCalls[w[1]].api = "Sealer.seal"
        /\ sealCalls[w[1]].pc = "done"
        /\ w[2] \in DOMAIN sealCalls[w[1]].result.cek}

\* the offset at which decryptCEK splits is the length of the ephemeral key
\* encryptCEK wrote, and the recipient's key unwraps the blob to the CEK of the call
UnwrapsToSameCEK(w) ==
    LET call == sealCalls[w[1]]
        blob == base64ToUint8Array(call.result.cek[w[2]])
    IN  /\ blob.ephLen = RawPublicKeyLength(unsealers[w[2]].privateKey.crv)
        /\ EphemeralPrefixLength = blob.ephLen
        /\ decryptCEKSucceeds(call.result.cek[w[2]], unsealers[w[2]].privateKey)
        /\ blob.cek = call.cek

\* C18: for P-256 and for P-384, decryptCEK splits an EC wrapped CEK at the
\* length of the raw ephemeral public key encryptCEK wrote for the curve (65
\* and 97 bytes), so the recipient's key unwraps the blob to the same CEK.
C18_EphemeralPrefix == \A w \in EcWrapsMade : UnwrapsToSameCEK(w)

\* What does hold: encryptCEK writes a prefix of the length of the curve, and
\* on P-256 the split is at that length and the unwrap recovers the CEK.
EphemeralPrefixOfP256 ==
    \A w \in EcWrapsMade :
        LET call == sealCalls[w[1]]
            blob == base64ToUint8Array(call.result.cek[w[2]])
        IN  /\ blob.ephLen = RawPublicKeyLength(suite)
            /\ suite = "P-256" => UnwrapsToSameCEK(w)
            /\ suite = "P-384" => ~decryptCEKSucceeds(call.result.cek[w[2]],
                                                      unsealers[w[2]].privateKey)

(***************************************************************************)
(* unsealCore called with keys of either family                            *)
(***************************************************************************)

\* the verification keys and decryption keys a caller of unsealCore may hand
\* over for the sender of the envelope and for itself
DirectVerifyKeys(kid) == {DirectKey(kid, "sig", alg, FALSE) : alg \in {"RSA-PSS", "ECDSA"}}
DirectDecryptKeys(u) == {DirectKey(u, "enc", alg, TRUE) : alg \in {"RSA-OAEP", "ECDH"}}

\* unsealCore(envelope, recipientKey, recipientKid, {[envelope.kid]: senderKey}),
\* by a recipient who names its key by its own kid or by the kid "__proto__"
UnsealCoreWithKeys(u) ==
    /\ unsealCalls[u].pc = "idle"
    /\ IsEnvelope(wire)
    /\ \E senderKey \in DirectVerifyKeys(wire.kid), recipientKey \in DirectDecryptKeys(u),
          recipientKid \in {u, PrototypeKid} :
          unsealCalls' = [unsealCalls EXCEPT ![u] =
              [unsealCoreEnter(wire, recipientKey, recipientKid,
                               [k \in {wire.kid} |-> senderKey])
                  EXCEPT !.api = "unsealCore"]]
    /\ UNCHANGED <<codec, createCalls, suite, sealer, unsealers, sealCalls, wire, touched>>

NextDirectUnseal ==
    \/ \E c \in SealIds : SealerSeal(c)
    \/ \E c \in SealIds : GenerateCEK(c)
    \/ \E c \in SealIds : EncryptPayload(c)
    \/ \E c \in SealIds : EncryptCEK(c)
    \/ \E c \in SealIds : SignEnvelope(c)
    \/ \E c \in SealIds : SealDigest(c)
    \/ \E c \in SealIds : Send(c)
    \/ \E u \in Recipients : UnsealCoreWithKeys(u)
    \/ \E u \in Recipients : VerifyEnvelope(u)
    \/ \E u \in Recipients : DecryptCEK(u)
    \/ \E u \in Recipients : UnsealDigest(u)
    \/ \E u \in Recipients : Decrypt(u)

SpecDirectUnseal == Init /\ [][NextDirectUnseal]_vars

\* the family of a key handle, by its algorithm
FamilyOfKey(key) ==
    IF key.alg \in {"RSA-PSS", "RSA-OAEP"} THEN "RSA"
    ELSE IF key.alg \in {"ECDSA", "ECDH"} THEN "EC"
    ELSE "none"

\* an unseal call begun with a verification key of one family and a decryption
\* key of the other
MixedUnseal(call) ==
    /\ call.pc # "idle"
    /\ FamilyOfKey(call.senderKey) # "none"
    /\ FamilyOfKey(call.recipientKey) # "none"
    /\ FamilyOfKey(call.senderKey) # FamilyOfKey(call.recipientKey)

\* C19: an unseal call whose sender verification key is of another family than
\* the caller's decryption key is rejected with the mixed-key-types error, and
\* neither the signature verification nor the CEK unwrap is performed with
\* that pair.
C19_UnsealAlgorithmConsistency ==
    \A u \in Recipients :
        MixedUnseal(unsealCalls[u])
            => /\ "verify" \notin Range(unsealCalls[u].log)
               /\ unsealCalls[u].log = <<>>
               /\ Finished(unsealCalls[u])
                     => /\ unsealCalls[u].pc = "failed"
                        /\ unsealCalls[u].error = <<"Mixed key types not supported">>

\* What unsealCore does with such a pair: it verifies the signature first;
\* with a sender key of the wrong family the call ends with 'Invalid envelope
\* signature', with a decryption key of the wrong family the signature passes
\* and the unwrap is tried and fails (or the missing entry fails to decode).
\* No plaintext is returned either way.
MixedUnsealRefusedLate ==
    \A u \in Recipients :
        LET call == unsealCalls[u]
        IN  (MixedUnseal(call) /\ Finished(call))
                => /\ call.pc = "failed"
                   /\ "verify" \in Range(call.log)
                   /\ call.error # <<"Mixed key types not supported">>
                   /\ call.error \in {<<"Invalid envelope signature">>, <<"KeyUnwrapFailure">>,
                                      <<"TypeError">>}
                   /\ call.error = <<"Invalid envelope signature">>
                         <=> FamilyOfKey(call.senderKey) # FamilyOf(suite)
                   /\ call.error = <<"TypeError">>
                         => call.recipientKid \notin DOMAIN call.envelope.cek

\* an unseal call by the kid "__proto__" got past the signature and threw in
\* decryptCEK before any call of the provider: envelope.cek["__proto__"] is
\* no text
InheritedCekEntryTypeError ==
    \E u \in Recipients :
        /\ unsealCalls[u].recipientKid = PrototypeKid
        /\ PrototypeKid \notin DOMAIN unsealCalls[u].envelope.cek
        /\ ~IsUndefined(cekEntry(unsealCalls[u].envelope, PrototypeKid))
        /\ unsealCalls[u].pc = "failed"
        /\ unsealCalls[u].error = <<"TypeError">>
        /\ unsealCalls[u].log = <<"verify">>

\* both ways of going wrong have happened
MixedUnsealBothWays ==
    /\ MixedUnseal(unsealCalls["bob"]) /\ unsealCalls["bob"].error = <<"KeyUnwrapFailure">>
    /\ MixedUnseal(unsealCalls["carol"])
    /\ unsealCalls["carol"].error = <<"Invalid envelope signature">>

(***************************************************************************)
(* No recipient is dropped                                                 *)
(***************************************************************************)

\* a seal call that got as far as wrapping and was given a recipient key
\* encryptCEK cannot wrap for
WrapFails(call) ==
    /\ Finished(call)
    /\ call.cek # <<>>
    /\ \E k \in DOMAIN call.recipientKeys : ~SupportedRecipient(call.recipientKeys[k])

\* C20: No silent recipient drop.  When the wrap fails for one of the selected
\* recipients the seal call fails with that error and returns no envelope; and
\* no envelope a seal call returns lacks a cek entry for a requested recipient.
C20_NoSilentDrop ==
    \A c \in SealIds :
        LET call == sealCalls[c]
        IN  /\ WrapFails(call)
                => /\ call.pc = "failed"
                   /\ call.error = <<"Unsupported key type">>
                   /\ call.result = NoEnvelope
            /\ call.pc = "done"
                => \A k \in Range(call.requested) : k \in DOMAIN call.result.cek

\* What holds: a failed wrap fails the call, and an envelope has an entry for
\* every recipient sealCore was given a key for and for every requested id,
\* the kid "__proto__" apart.
NoDropOfPlainKids ==
    \A c \in SealIds :
        LET call == sealCalls[c]
        IN  /\ WrapFails(call)
                => /\ call.pc = "failed"
                   /\ call.error = <<"Unsupported key type">>
                   /\ call.result = NoEnvelope
            /\ call.pc = "done"
                => /\ DOMAIN call.recipientKeys \ {PrototypeKid} = DOMAIN call.result.cek
                   /\ \A k \in Range(call.requested) \ {PrototypeKid} :
                         k \in DOMAIN call.result.cek

\* sealCore, given keys under "__proto__" and "carol", wrapped for both and
\* returned an envelope whose cek has the entry of carol alone
WrappedForPrototypeKidWithoutEntry ==
    \E c \in SealIds :
        /\ sealCalls[c].api = "sealCore"
        /\ sealCalls[c].order = <<PrototypeKid, "carol">>
        /\ sealCalls[c].pc = "done"
        /\ WrapCount(sealCalls[c].log) = 2
        /\ DOMAIN sealCalls[c].result.cek = {"carol"}

\* sealCore, given a key under "__proto__" alone, returned an envelope whose
\* cek is empty
SealedForNobody ==
    \E c \in SealIds :
        /\ sealCalls[c].api = "sealCore"
        /\ sealCalls[c].order = <<PrototypeKid>>
        /\ sealCalls[c].pc = "done"
        /\ DOMAIN sealCalls[c].result.cek = {}

\* a wrap that failed for the second recipient after the first was wrapped
WrapFailedForSecond ==
    \E c \in SealIds :
        /\ WrapFails(sealCalls[c])
        /\ sealCalls[c].i = 2
        /\ SupportedRecipient(sealCalls[c].recipientKeys[sealCalls[c].order[1]])

(***************************************************************************)
(* Calls one after the other on one Sealer and one Unsealer                *)
(***************************************************************************)

\* a recipient whose kid is an array index
IndexKid == "1"

\* the recipient lists of the calls: known ids, lists with an unknown id, and
\* a list that names the index kid behind bob
RepeatRecipientLists ==
    {<<"bob">>, <<"zed">>, <<"bob", "yan">>, <<"carol", "bob">>, <<"bob", IndexKid>>}

\* the plaintext of the calls
RepeatPlaintexts == {[str |-> TRUE, v |-> <<233>>]}

\* the unseal calls made on the one Unsealer, in their order
RepeatUnsealIds == <<"r1", "r2", "r3", "r4">>

\* the call made before c on the same instance; "" for the first
EarlierSeal(c) == IF c = "s2" THEN "s1" ELSE ""
EarlierUnseal(u) ==
    IF u = RepeatUnsealIds[1] THEN ""
    ELSE RepeatUnsealIds[(CHOOSE j \in 2..Len(RepeatUnsealIds) : RepeatUnsealIds[j] = u) - 1]

\* a seal call may begin once the call before it has ended
SealMayBegin(c) ==
    /\ sealCalls[c].pc = "idle"
    /\ EarlierSeal(c) # "" => sealCalls[EarlierSeal(c)].pc \in {"done", "failed"}

\* an unseal call may begin once an envelope was sent and the unseal call
\* before it has ended
UnsealMayBegin(u) ==
    /\ unsealCalls[u].pc = "idle"
    /\ IsEnvelope(wire)
    /\ EarlierUnseal(u) # "" => Finished(unsealCalls[EarlierUnseal(u)])

\* A Sealer that keeps the keys selected for a call as its own key set.
SealerSealAgain_KeepsSelection(c) ==
    /\ SealMayBegin(c)
    /\ \E payload \in RepeatPlaintexts, recipientKids \in RepeatRecipientLists :
          /\ sealCalls' = [sealCalls EXCEPT ![c] =
                [SealerSealEnter(sealer, payload, recipientKids) EXCEPT
                    !.api = "Sealer.seal", !.requested = recipientKids]]
          /\ sealer' = [sealer EXCEPT !.recipientKeys =
                [k \in DOMAIN sealer.recipientKeys \cap Range(recipientKids) |->
                    sealer.recipientKeys[k]]]
    /\ UNCHANGED <<codec, createCalls, suite, unsealers, wire, touched, unsealCalls>>

\* Sealer.seal, called again on the same instance after the call before it
\* returned or threw: the instance's fields are read only
SealerSealAgain(c) ==
    /\ SealMayBegin(c)
    /\ \E payload \in RepeatPlaintexts, recipientKids \in RepeatRecipientLists :
          sealCalls' = [sealCalls EXCEPT ![c] =
              [SealerSealEnter(sealer, payload, recipientKids) EXCEPT
                  !.api = "Sealer.seal", !.requested = recipientKids]]
    /\ UNCHANGED <<codec, createCalls, suite, sealer, unsealers, wire, touched, unsealCalls>>

\* the caller sends the envelope of one of the seal calls once both ended
SendOne(c) ==
    /\ \A d \in DOMAIN sealCalls : Finished(sealCalls[d])
    /\ Send(c)

\* the envelopes the unseal calls are given: the envelope sent; that envelope
\* with a character of its signature or of its ctx changed, and the bytes
\* with it; an envelope alice made with the provider, in which a key other
\* than the payload's is wrapped for bob
RepeatEnvelopes(env) ==
    {env,
     [env EXCEPT !.signature.b = Modified(@)],
     [env EXCEPT !.ctx.b = Modified(@)],
     CraftedEnvelope("alice", IvLength + 1 + GcmTagLength, {"bob"})}

\* Unsealer.unseal, called again on the same instance after the call before
\* it returned or threw
UnsealerUnsealAgain(u) ==
    /\ UnsealMayBegin(u)
    /\ \E envelope \in RepeatEnvelopes(wire) :
          unsealCalls' = [unsealCalls EXCEPT ![u] =
              [UnsealerUnsealEnter(unsealers[u], envelope) EXCEPT
                  !.api = "Unsealer.unseal"]]
    /\ UNCHANGED <<codec, createCalls, suite, sealer, unsealers, sealCalls, wire, touched>>

\* the instances as create returned them
SealerAsCreated ==
    SealerCreate(SigningJWK("alice", suite, TRUE),
                 <<EncryptionJWK("bob", suite, FALSE),
                   EncryptionJWK("carol", suite, FALSE),
                   EncryptionJWK(PrototypeKid, suite, FALSE),
                   EncryptionJWK(IndexKid, suite, FALSE)>>, suite)
UnsealerAsCreated ==
    UnsealerCreate(EncryptionJWK("bob", suite, TRUE), <<SigningJWK("alice", suite, FALSE)>>, suite)

\* one Sealer (alice's) and one Unsealer (bob's); every unseal call is made
\* on that one Unsealer
InitRepeat ==
    /\ createCalls = [w \in Creators |-> IdleCreate]
    /\ suite \in Suites
    /\ sealer = SealerAsCreated
    /\ unsealers = [u \in Range(RepeatUnsealIds) |-> UnsealerAsCreated]
    /\ sealCalls = [c \in ConcurrentSealIds |-> IdleSeal]
    /\ wire = NoEnvelope
    /\ touched = {}
    /\ unsealCalls = [u \in Range(RepeatUnsealIds) |-> IdleUnseal]
    /\ codec = IdleCodec

NextRepeat ==
    \/ \E c \in ConcurrentSealIds : SealerSealAgain(c)
    \/ \E c \in ConcurrentSealIds : GenerateCEK(c)
    \/ \E c \in ConcurrentSealIds : EncryptPayload(c)
    \/ \E c \in ConcurrentSealIds : EncryptCEK(c)
    \/ \E c \in ConcurrentSealIds : SignEnvelope(c)
    \/ \E c \in ConcurrentSealIds : SealDigest(c)
    \/ \E c \in ConcurrentSealIds : SendOne(c)
    \/ \E u \in Range(RepeatUnsealIds) : UnsealerUnsealAgain(u)
    \/ \E u \in Range(RepeatUnsealIds) : VerifyEnvelope(u)
    \/ \E u \in Range(RepeatUnsealIds) : DecryptCEK(u)
    \/ \E u \in Range(RepeatUnsealIds) : UnsealDigest(u)
    \/ \E u \in Range(RepeatUnsealIds) : Decrypt(u)

SpecRepeat == InitRepeat /\ [][NextRepeat]_vars

\* what a call took from its instance on entry
SealEntry(call) ==
    [pc |-> IF call.i = 0 /\ call.cek = <<>> THEN call.pc ELSE "generateCEK",
     senderKey |-> call.senderKey, senderKid |-> call.senderKid,
     order |-> call.order, recipientKeys |-> call.recipientKeys,
     error |-> IF call.cek = <<>> THEN call.error ELSE <<>>]
UnsealEntry(call) ==
    [pc |-> IF call.log = <<>> THEN call.pc ELSE "verifyEnvelope",
     recipientKey |-> call.recipientKey, recipientKid |-> call.recipientKid,
     senderKeys |-> call.senderKeys, senderKey |-> call.senderKey,
     error |-> IF call.log = <<>> THEN call.error ELSE <<>>]

\* C21: Statelessness.  The key set of the Sealer and of the Unsealer stays
\* what create made it through every seal and unseal call, failed or not; so
\* a call made after failed ones (unknown recipient, invalid signature,
\* invalid ctx, authentication failure) takes from its instance what it would
\* take from a fresh one, and ends as it would on a fresh one: a seal call for
\* known recipients with its envelope, an unseal call of an envelope without
\* defect with success.
C21_Statelessness ==
    /\ sealer = SealerAsCreated
    /\ \A u \in DOMAIN unsealers : unsealers[u] = UnsealerAsCreated
    /\ \A c \in DOMAIN sealCalls :
          LET call == sealCalls[c]
          IN  call.pc # "idle"
                 => /\ SealEntry(call)
                         = SealEntry(SealerSealEnter(SealerAsCreated, call.payload,
                                                     call.requested))
                    /\ (Finished(call)
                           /\ Range(call.requested) \subseteq Recipients \cup {IndexKid})
                          => call.pc = "done" /\ call.result = EnvelopeOfCall(c)
    /\ \A u \in DOMAIN unsealCalls :
          LET call == unsealCalls[u]
          IN  call.pc # "idle"
                 => /\ UnsealEntry(call)
                         = UnsealEntry(UnsealerUnsealEnter(UnsealerAsCreated, call.envelope))
                    /\ Finished(call)
                          => (call.pc = "done" <=> EarliestDefect(u, call.envelope) = 0)

\* a seal call that failed for an unknown recipient, followed on the same
\* Sealer by a call that returned; and on the one Unsealer a call that failed
\* for a changed signature, one that failed for a changed ctx and one that
\* failed at the decryption, followed by a call that returned the plaintext
C21_Witness ==
    /\ sealCalls["s1"].pc = "failed"
    /\ sealCalls["s1"].error = <<"Unknown recipient", "yan">>
    /\ sealCalls["s2"].pc = "done"
    /\ unsealCalls["r1"].pc = "failed"
    /\ unsealCalls["r1"].error = <<"Invalid envelope signature">>
    /\ unsealCalls["r2"].pc = "failed"
    /\ unsealCalls["r2"].error = <<"Invalid CTX tag">>
    /\ unsealCalls["r3"].pc = "failed"
    /\ unsealCalls["r3"].error = <<"AuthenticationFailure">>
    /\ unsealCalls["r3"].log = UnsealSteps(unsealCalls["r3"].recipientKey)
    /\ unsealCalls["r4"].pc = "done"
    /\ wire = sealCalls["s2"].result
    /\ unsealCalls["r4"].envelope = wire
    /\ unsealCalls["r4"].result = ExpectedBytes(sealCalls["s2"].payload)

\* every unseal call before the last was one that failed at the decryption,
\* and the last returned
ReturnedAfterAuthenticationFailures ==
    /\ \A u \in {"r1", "r2", "r3"} :
          /\ unsealCalls[u].pc = "failed"
          /\ unsealCalls[u].error = <<"AuthenticationFailure">>
    /\ unsealCalls["r4"].pc = "done"

\* a seal call for bob and the recipient "1" wrapped for "1" first and
\* returned an envelope for both
IndexKidWrappedFirst ==
    \E c \in DOMAIN sealCalls :
        /\ sealCalls[c].requested = <<"bob", IndexKid>>
        /\ sealCalls[c].order = <<IndexKid, "bob">>
        /\ sealCalls[c].pc = "done"
        /\ DOMAIN sealCalls[c].result.cek = {"bob", IndexKid}

(***************************************************************************)
(* The commitment                                                          *)
(***************************************************************************)

\* domainSeparator || IV || ciphertext || tag of a payload of n bytes, with IV
\* its first 12 bytes, tag its last 16 and ciphertext the bytes between
CommitmentBytes(sepLen, n) ==
    [p \in 1..(sepLen + IvLength + (n - IvLength - GcmTagLength) + GcmTagLength) |->
        IF p <= sepLen THEN <<"sep", p - 1>>
        ELSE IF p <= sepLen + IvLength THEN <<"enc", p - sepLen - 1>>
        ELSE IF p <= sepLen + n - GcmTagLength
             THEN <<"enc", IvLength + (p - sepLen - IvLength - 1)>>
        ELSE <<"enc", (n - GcmTagLength) + (p - (sepLen + n - GcmTagLength) - 1)>>]

\* C22: for every envelope seal produced, ctx is SHA-256 of the domain
\* separator, the IV (first 12 bytes), the ciphertext and the tag (last 16
\* bytes) of the decoded payload and of nothing else; and an unsealer given
\* the envelope as produced recomputes that same value, so its commitment
\* check passes.
C22_CommitmentOfPayload ==
    \A c \in SealIds :
        LET call == sealCalls[c]
            encrypted == call.result.payload.b
        IN  call.pc = "done"
            => /\ encrypted.len >= IvLength + GcmTagLength
               /\ ~ctxLayoutThrows(separatorLength, encrypted.len)
               /\ ctxLayout(separatorLength, encrypted.len)
                     = CommitmentBytes(separatorLength, encrypted.len)
               /\ call.result.ctx.b
                     = Sha256([separator |-> CTX_CONSTANT_STRING, body |-> encrypted,
                               layout |-> <<>>])
               /\ \A u \in Recipients :
                     (Delivered(c, u) /\ unsealCalls[u].cek # <<>>
                                      /\ unsealCalls[u].pc # "digest")
                        => /\ "digest" \in Range(unsealCalls[u].log)
                           /\ unsealCalls[u].error \notin {<<"Invalid CTX tag">>, <<"RangeError">>}

\* an envelope with a ciphertext of one byte or more, whose commitment the
\* unsealer has recomputed and accepted
C22_Witness ==
    \E c \in SealIds, u \in Recipients :
        /\ sealCalls[c].pc = "done"
        /\ sealCalls[c].result.payload.b.len > IvLength + GcmTagLength
        /\ Delivered(c, u)
        /\ unsealCalls[u].pc = "done"
        /\ "digest" \in Range(unsealCalls[u].log)

(***************************************************************************)
(* Sender binding                                                          *)
(***************************************************************************)

\* the signature of an envelope was made over exactly its {kid, cek, payload}
\* by the private half of the key the Unsealer of u holds under its kid
SignedByRegisteredKey(u, env) ==
    /\ env.kid \in DOMAIN unsealers[u].senderKeys
    /\ env.signature.b.tag = "sig"
    /\ env.signature.b.mod = 0
    /\ env.signature.b.signer = unsealers[u].senderKeys[env.kid].id
    /\ env.signature.b.msg = SignedTriple(env)

\* C26: Sender binding.  Unsealer.unseal hands unsealCore the key registered
\* for envelope.kid and no other, and the signature is verified under that
\* key: an envelope signed by a known sender and relabelled to another known
\* sender fails with 'Invalid envelope signature', and an envelope gets past
\* the signature check only if the holder of the key registered under its kid
\* signed exactly its {kid, cek, payload}.
C26_SenderBinding ==
    \A u \in Recipients :
        LET call == unsealCalls[u]
            env == call.envelope
        IN  (call.api = "Unsealer.unseal" /\ call.pc # "idle")
            => /\ env.kid \in DOMAIN unsealers[u].senderKeys
                  => /\ DOMAIN call.senderKeys = {env.kid}
                     /\ call.senderKeys[env.kid] = unsealers[u].senderKeys[env.kid]
                     /\ call.senderKey = unsealers[u].senderKeys[env.kid]
               /\ ( /\ Finished(call)
                    /\ env.kid \in DOMAIN unsealers[u].senderKeys
                    /\ \E c \in SealIds :
                          /\ sealCalls[c].pc = "done"
                          /\ env.kid # sealCalls[c].result.kid
                          /\ env = [sealCalls[c].result EXCEPT !.kid = env.kid] )
                  => /\ call.pc = "failed"
                     /\ call.error = <<"Invalid envelope signature">>
               /\ (call.pc \in {"decryptCEK", "digest", "decrypt", "done"}
                      \/ (call.pc = "failed" /\ Len(call.log) > 1))
                  => SignedByRegisteredKey(u, env)

\* bob, who knows alice and amy, refuses an envelope of alice relabelled amy
C26_Witness ==
    /\ unsealCalls["bob"].api = "Unsealer.unseal"
    /\ unsealCalls["bob"].pc = "failed"
    /\ unsealCalls["bob"].error = <<"Invalid envelope signature">>
    /\ unsealCalls["bob"].envelope.kid = "amy"
    /\ touched = {"kid"}
    /\ \E c \in SealIds :
          /\ sealCalls[c].pc = "done"
          /\ sealCalls[c].result.kid = "alice"
          /\ unsealCalls["bob"].envelope = [sealCalls[c].result EXCEPT !.kid = "amy"]
(***************************************************************************)
(* Envelopes a trusted sender makes with the provider, of any payload       *)
(* length and with any key wrapped for a recipient                          *)
(***************************************************************************)

\* payload lengths from nothing up to an IV, MaxLen + 1 ciphertext bytes and a tag
CraftedLengths == 0..(IvLength + MaxLen + 1 + GcmTagLength)

\* such an envelope is put on the channel
Craft(s) ==
    /\ wire = NoEnvelope
    /\ \E n \in CraftedLengths, wrong \in SUBSET Recipients :
          wire' = CraftedEnvelope(s, n, wrong)
    /\ UNCHANGED <<codec, createCalls, suite, sealer, unsealers, sealCalls, touched, unsealCalls>>

NextCrafted ==
    \/ \E s \in Senders : Craft(s)
    \/ \E u \in Recipients : UnsealerUnseal(u)
    \/ \E u \in Recipients : VerifyEnvelope(u)
    \/ \E u \in Recipients : DecryptCEK(u)
    \/ \E u \in Recipients : UnsealDigest(u)
    \/ \E u \in Recipients : Decrypt(u)

SpecCrafted == Init /\ [][NextCrafted]_vars

\* the steps before decryption have nothing to object to in the envelope of
\* unseal call u: known sender, signature, CEK entry, unwrap, commitment
PassesUpToDecrypt(u, env) ==
    /\ SignedByRegisteredKey(u, env)
    /\ unsealers[u].privateKid \in DOMAIN env.cek
    /\ decryptCEKSucceeds(env.cek[unsealers[u].privateKid], unsealers[u].privateKey)
    /\ ~ctxInputThrows(env.payload.b)
    /\ Sha256(ctxInput(env.payload.b)) = env.ctx.b

\* the key wrapped for u in env
WrappedKey(u, env) == env.cek[unsealers[u].privateKid].b.cek

\* the tag of the payload does not verify under key: the payload was not
\* encrypted under it, or there is no whole tag behind the IV
TagFails(blob, key) ==
    \/ \A o \in blob.open : o.key # key
    \/ blob.len < IvLength + GcmTagLength
    \/ blob.mod # 0

\* C27: AEAD gate.  When signature, CEK unwrap and ctx check all pass but the
\* tag of the payload does not verify under the recovered CEK, unseal goes
\* through verify, the unwrap, digest and decrypt and fails with
\* AuthenticationFailure: the call never ends done and returns no bytes.
C27_AeadGate ==
    \A u \in Recipients :
        LET call == unsealCalls[u]
            env == call.envelope
        IN  ( /\ call.pc # "idle"
              /\ PassesUpToDecrypt(u, env)
              /\ TagFails(env.payload.b, WrappedKey(u, env)) )
            => /\ call.pc # "done"
               /\ call.result = <<>>
               /\ call.pc = "failed"
                     => /\ call.error = <<"AuthenticationFailure">>
                        /\ call.log = UnsealSteps(call.recipientKey)
               /\ call.pc \in {"decrypt", "failed"} => call.cek = WrappedKey(u, env)

\* bob was wrapped a key other than the payload's by alice, whom he knows, over
\* a payload of full length, and his unseal failed at the decryption
C27_Witness ==
    LET call == unsealCalls["bob"]
    IN  /\ call.pc = "failed"
        /\ call.error = <<"AuthenticationFailure">>
        /\ call.envelope.kid = "alice"
        /\ PassesUpToDecrypt("bob", call.envelope)
        /\ call.envelope.payload.b.len > IvLength + GcmTagLength
        /\ call.cek = OtherKey("bob")
(***************************************************************************)
(* Short payloads                                                          *)
(***************************************************************************)

\* the least length of a payload: an IV, no ciphertext, a tag
MinPayloadLength == IvLength + GcmTagLength

\* C28: Short payloads.  For every envelope with a valid signature of a known
\* sender whose payload decodes to fewer than 28 bytes, of any length from 0
\* to 27, unseal never ends done and never returns bytes: it fails in the
\* commitment arithmetic, at the commitment check or at the decryption, or
\* earlier at the unwrap; no accepted commitment is followed by a successful
\* decryption.
C28_ShortPayloads ==
    \A u \in Recipients :
        LET call == unsealCalls[u]
            env == call.envelope
        IN  ( /\ call.pc # "idle"
              /\ SignedByRegisteredKey(u, env)
              /\ env.payload.b.len < MinPayloadLength )
            => /\ call.pc # "done"
               /\ call.result = <<>>
               /\ call.pc = "failed"
                     => call.error \in {<<"KeyUnwrapFailure">>, <<"RangeError">>,
                                        <<"Invalid CTX tag">>, <<"AuthenticationFailure">>}
               /\ (call.pc = "failed" /\ "digest" \in Range(call.log)
                                      /\ call.error # <<"Invalid CTX tag">>)
                     => /\ call.error = <<"AuthenticationFailure">>
                        /\ call.log = UnsealSteps(call.recipientKey)

\* bob got from alice a payload shorter than 28 bytes with his key wrapped and
\* a commitment that the recomputation accepted, and the decryption refused it
C28_Witness ==
    LET call == unsealCalls["bob"]
    IN  /\ call.pc = "failed"
        /\ call.envelope.kid = "alice"
        /\ call.envelope.payload.b.len < MinPayloadLength
        /\ call.cek = ForgedKey("bob")
        /\ call.log = UnsealSteps(call.recipientKey)
        /\ call.error = <<"AuthenticationFailure">>

\* the commitment arithmetic throws on a payload too short for it
ShortPayloadThrows ==
    LET call == unsealCalls["carol"]
    IN  /\ call.pc = "failed"
        /\ call.envelope.payload.b.len = 0
        /\ call.error = <<"RangeError">>
(***************************************************************************)
(* Termination                                                             *)
(***************************************************************************)

\* the awaits of seal call c: each is a promise of the provider that resolves
\* or rejects, after which the call runs on to its next await or to its end
SealStep(c) ==
    \/ GenerateCEK(c)
    \/ EncryptPayload(c)
    \/ EncryptCEK(c)
    \/ SignEnvelope(c)
    \/ SealDigest(c)

\* the awaits of unseal call u
UnsealStep(u) ==
    \/ VerifyEnvelope(u)
    \/ DecryptCEK(u)
    \/ UnsealDigest(u)
    \/ Decrypt(u)

\* the key records of the direct call: none; a key of bob, or one under the
\* name "__proto__", alone or with a key of carol behind it
TerminatingOrders ==
    {q \in DirectOrders : q # <<>> => (q[1] # "carol" /\ (Len(q) = 2 => q[2] = "carol"))}

\* sealCore called directly on the empty payload with key records of the
\* caller's making (s1) while Sealer.seal runs (s2) and bob's Unsealer unseals
\* what either returned
NextTerminating ==
    \/ \E c \in ConcurrentSealIds \ SealIds : SealerSealConcurrently(c)
    \/ \E c \in SealIds : /\ SealCore(c)
                          /\ sealCalls'[c].payload = [str |-> FALSE, v |-> <<>>]
                          /\ sealCalls'[c].order \in TerminatingOrders
    \/ \E c \in ConcurrentSealIds : SealStep(c)
    \/ \E c \in ConcurrentSealIds : UnsealerUnsealReturned("bob", c)
    \/ UnsealStep("bob")

\* every pending promise of the provider settles and its continuation runs
SpecTerminating ==
    /\ InitConcurrent
    /\ [][NextTerminating]_vars
    /\ \A c \in ConcurrentSealIds : WF_vars(SealStep(c))
    /\ \A u \in Recipients : WF_vars(UnsealStep(u))
\* a call that was begun and has not ended
Running(call) == call.pc \notin {"idle", "done", "failed"}

\* how a seal call stands: the provider was called at most once for the key,
\* the payload, each call of each recipient's wrap, the signature and the
\* digest, in this order; ended, the call
\* has a whole envelope (with the cek entries of kids) and no error, or an
\* error and no envelope
SealCallWholeFor(c, kids) ==
    LET call == sealCalls[c]
    IN  /\ IsPrefix(call.log, SealSteps(call.order, call.recipientKeys))
        /\ call.pc = "done"
              => /\ call.error = <<>>
                 /\ DOMAIN call.result = {"kid", "cek", "payload", "signature", "ctx"}
                 /\ call.result.kid = call.senderKid
                 /\ DOMAIN call.result.cek = kids
                 /\ \A k \in DOMAIN call.result.cek :
                       call.result.cek[k].b.tag \in {"oaep", "ecdh"}
                 /\ call.result.payload.b.tag = "gcm"
                 /\ call.result.signature.b.tag = "sig"
                 /\ call.result.ctx.b.tag = "sha256"
                 /\ call.log = SealSteps(call.order, call.recipientKeys)
        /\ call.pc = "failed"
              => /\ call.error # <<>>
                 /\ call.result = NoEnvelope

\* a whole envelope has an entry for every key the call was given
SealCallFull(c) == SealCallWholeFor(c, DOMAIN sealCalls[c].recipientKeys)

\* a whole envelope has an entry for every key the call was given, a key
\* given under the name "__proto__" apart
SealCallWhole(c) ==
    SealCallWholeFor(c, DOMAIN sealCalls[c].recipientKeys \ {PrototypeKid})

\* the same for an unseal call: at most verify, the calls of the unwrap,
\* digest, decrypt;
\* ended, it has the plaintext and no error, or an error and no bytes
UnsealCallWhole(u) ==
    LET call == unsealCalls[u]
    IN  /\ IsPrefix(call.log, UnsealSteps(call.recipientKey))
        /\ call.pc = "done"
              => /\ call.error = <<>>
                 /\ call.log = UnsealSteps(call.recipientKey)
                 /\ call.result
                       = AesGcmDecrypt(call.envelope.payload.b, call.cek)
        /\ call.pc = "failed"
              => /\ call.error # <<>>
                 /\ call.result = <<>>
        /\ call.pc # "done" => call.result = <<>>

\* A call that is under way can take its next step whatever the other calls
\* are doing.
NoCallWaits ==
    /\ \A c \in ConcurrentSealIds :
          Running(sealCalls[c]) => ENABLED <<SealStep(c)>>_vars
    /\ \A u \in Recipients :
          Running(unsealCalls[u]) => ENABLED <<UnsealStep(u)>>_vars

EndedWithoutPrototypeKidEntry ==
    /\ sealCalls["s1"].order = <<PrototypeKid, "carol">>
    /\ sealCalls["s1"].pc = "done"
    /\ sealCalls["s1"].log = SealSteps(sealCalls["s1"].order, sealCalls["s1"].recipientKeys)
    /\ DOMAIN sealCalls["s1"].result.cek = {"carol"}
(***************************************************************************)
(* The payload codec and its server                                        *)
(***************************************************************************)

InitCodec ==
    /\ createCalls = [w \in CodecCreates |-> IdleCreate]
    /\ suite \in Suites
    /\ sealer = SealerCreate(SigningJWK("alice", suite, TRUE),
                             <<EncryptionJWK("bob", suite, FALSE),
                               EncryptionJWK("carol", suite, FALSE),
                               EncryptionJWK(PrototypeKid, suite, FALSE)>>, suite)
    /\ unsealers = [r \in Recipients |->
          UnsealerCreate(EncryptionJWK(r, suite, TRUE),
                         <<SigningJWK("alice", suite, FALSE)>>, suite)]
    /\ sealCalls = [c \in Range(CallOfPosition) |-> IdleSeal]
    /\ wire = NoEnvelope
    /\ touched = {}
    /\ unsealCalls = [u \in Range(UnsealOfPosition) |-> IdleUnseal]
    /\ codec \in {[IdleCodec EXCEPT !.options = o] : o \in CodecOptions}

NextCodec ==
    \/ \E x \in CodecParties : CodecEncode(x)
    \/ \E x \in CodecParties : PostEncode(x)
    \/ EncodeImportKey
    \/ \E c \in Range(CallOfPosition) : GenerateCEK(c)
    \/ \E c \in Range(CallOfPosition) : EncryptPayload(c)
    \/ \E c \in Range(CallOfPosition) : EncryptCEK(c)
    \/ \E c \in Range(CallOfPosition) : SignEnvelope(c)
    \/ \E c \in Range(CallOfPosition) : SealDigest(c)
    \/ Deliver
    \/ DeliverPlain
    \/ \E y \in CodecParties : CodecDecode(y)
    \/ \E y \in CodecParties : PostDecode(y)
    \/ DecodeImportKey
    \/ \E u \in Range(UnsealOfPosition) : VerifyEnvelope(u)
    \/ \E u \in Range(UnsealOfPosition) : DecryptCEK(u)
    \/ \E u \in Range(UnsealOfPosition) : UnsealDigest(u)
    \/ \E u \in Range(UnsealOfPosition) : Decrypt(u)

SpecCodec == InitCodec /\ [][NextCodec]_vars

\* a codec call has returned or rejected
CodecEnded(call) == call.pc \in {"done", "failed"}

\* the parties whose keys the options list both as recipient and as sender
ListedParties ==
    {w \in CodecParties :
        /\ \E j \in 1..Len(codec.options.recipients) :
              CodecRecipientJwks(codec.options)[j] = EncryptionJWK(w, suite, FALSE)
        /\ \E j \in 1..Len(codec.options.senders) :
              CodecSenderJwks(codec.options)[j] = SigningJWK(w, suite, FALSE)}

\* the decode call got the batch the encode call returned, as returned
DecodesTheEncoded ==
    /\ codec.encodeCall.pc = "done"
    /\ codec.decodeCall.pc # "idle"
    /\ codec.decodeCall.input = codec.encodeCall.result

\* the kids an encoded payload is sealed for
SealedFor(payload) == DOMAIN JsonParse(payload.data.bytes).cek

\* C23: Codec round trip.  For two parties X and Y that the shared options
\* list as recipients and as senders, and any batch, X's encode returns a
\* payload for each payload given, each sealed for every key of
\* recipientPublicKeys, and Y's decode of what X's encode returned gives
\* payloads equal to the originals, metadata and data, in the same order and
\* of the same number: neither call rejects, and each returns so.
C23_CodecRoundTrip ==
    LET enc == codec.encodeCall
        dec == codec.decodeCall
    IN  /\ (enc.pc # "idle" /\ enc.who \in ListedParties)
              => /\ enc.pc # "failed"
                 /\ enc.pc = "done"
                       => /\ Len(enc.result) = Len(enc.input)
                          /\ \A i \in 1..Len(enc.result) :
                                SealedFor(enc.result[i]) = Range(codec.options.recipients)
        /\ (DecodesTheEncoded /\ enc.who \in ListedParties /\ dec.who \in ListedParties)
              => /\ dec.pc # "failed"
                 /\ dec.pc = "done"
                       => /\ Len(dec.result) = Len(enc.input)
                          /\ dec.result = enc.input

\* The round trip where it does hold: on RSA keys and P-256 keys the decoded
\* batch equals the original one, and every encoded payload is sealed for
\* every recipient key whose kid is not "__proto__"; on P-384 keys encode
\* returns and every decode of a payload fails.
CodecRoundTripOffP384 ==
    LET enc == codec.encodeCall
        dec == codec.decodeCall
    IN  /\ (enc.pc # "idle" /\ enc.who \in ListedParties)
              => /\ enc.pc # "failed"
                 /\ enc.pc = "done"
                       => /\ Len(enc.result) = Len(enc.input)
                          /\ \A i \in 1..Len(enc.result) :
                                SealedFor(enc.result[i])
                                    = Range(codec.options.recipients) \ {PrototypeKid}
        /\ (DecodesTheEncoded /\ enc.who \in ListedParties /\ dec.who \in ListedParties)
              => IF suite = "P-384" /\ enc.input # <<>>
                 THEN dec.pc # "done"
                 ELSE /\ dec.pc # "failed"
                      /\ dec.pc = "done" => dec.result = enc.input

\* carol decoded the two payloads bob encoded, and got them back in order
CodecRoundTripDone ==
    /\ DecodesTheEncoded
    /\ codec.encodeCall.who = "bob"
    /\ codec.decodeCall.who = "carol"
    /\ codec.decodeCall.pc = "done"
    /\ Len(codec.decodeCall.result) > 1
    /\ codec.decodeCall.result = codec.encodeCall.input

\* on P-384 keys the decode of what a listed party encoded rejected
CodecRoundTripLostOnP384 ==
    /\ DecodesTheEncoded
    /\ suite = "P-384"
    /\ codec.encodeCall.who = "bob"
    /\ codec.decodeCall.who = "carol"
    /\ codec.decodeCall.pc = "failed"

\* the seal calls of the two payloads of an encode call are both under way
SealCallsInterleaved ==
    /\ codec.encodeCall.pc = "all"
    /\ sealCalls["s1"].log # <<>> /\ sealCalls["s1"].pc \notin {"done", "failed"}
    /\ sealCalls["s2"].log # <<>> /\ sealCalls["s2"].pc \notin {"done", "failed"}

\* decode is to pass this payload through
PassedThrough(payload) == NotOurEncoding(payload) \/ ~payload.data.has

\* C24: Codec pass-through.  decode returns a payload unchanged, without
\* calling unseal and without raising, when its metadata has no 'encoding'
\* entry equal to 'binary/key-sealed-envelope' or when it has that entry but
\* no data; only payloads with that encoding and with data are unsealed.
C24_CodecPassThrough ==
    LET dec == codec.decodeCall
    IN  dec.pc # "idle"
        => /\ \A i \in 1..Len(dec.input) :
                 PassedThrough(dec.input[i])
                    => /\ i \notin dec.unsealed
                       /\ dec.pc # "failed"
                       /\ dec.pc = "done" => dec.result[i] = dec.input[i]
           /\ \A i \in dec.unsealed : ~PassedThrough(dec.input[i])

\* What holds of pass-through: unseal is never called for such a payload;
\* when decode returns, the payload is returned as it was, at its place; and
\* decode raises only when the Unsealer could not be created from the
\* options or when a payload that carries the encoding and data failed.  The
\* encoding is read as text: a byte order mark before it is not part of it.
PassThroughWhenDecodeReturns ==
    LET dec == codec.decodeCall
    IN  dec.pc # "idle"
        => /\ \A i \in 1..Len(dec.input) :
                 PassedThrough(dec.input[i])
                    => /\ i \notin dec.unsealed
                       /\ i \notin dec.threw
                       /\ dec.pc = "done" => dec.result[i] = dec.input[i]
           /\ \A i \in dec.unsealed \cup dec.threw : ~PassedThrough(dec.input[i])
           /\ dec.pc = "failed"
                 => \/ ~dec.created
                    \/ \E j \in 1..Len(dec.input) : ~PassedThrough(dec.input[j])
           /\ (dec.created /\ \A j \in 1..Len(dec.input) : PassedThrough(dec.input[j]))
                 => dec.pc = "done" /\ dec.result = dec.input
           /\ dec.pc = "all"
                 => \A i \in 1..Len(dec.input) :
                       ~PassedThrough(dec.input[i]) => i \in dec.unsealed \cup dec.threw

\* a payload with our encoding and no data came back from decode as it was
PassedThroughWithoutData ==
    /\ codec.decodeCall.pc = "done"
    /\ codec.decodeCall.input = <<OursWith(NoData)>>
    /\ codec.decodeCall.result = codec.decodeCall.input
    /\ codec.decodeCall.unsealed = {}

\* decode raised on a batch of one payload of another encoding
PassThroughRaised ==
    /\ codec.decodeCall.pc = "failed"
    /\ codec.decodeCall.input = <<JsonPlain("message.encoding", <<1>>)>>

\* a payload whose encoding entry begins with a byte order mark was unsealed
\* and decoded
ByteOrderMarkUnsealed ==
    /\ codec.decodeCall.pc = "done"
    /\ Len(codec.decodeCall.input) = 2
    /\ encodingOf(codec.decodeCall.input[1]) = WithByteOrderMark(ENCODING)
    /\ codec.decodeCall.unsealed = {1, 2}
    /\ codec.decodeCall.result = codec.encodeCall.input

\* Unsealer.unseal was called with null, the value of the JSON text "null",
\* and threw a TypeError before any call of the provider
NullUnsealed ==
    /\ codec.decodeCall.pc = "failed"
    /\ \E i \in codec.decodeCall.unsealed :
          /\ codec.decodeCall.input[i].data.bytes = TextEncoderEncode(<<110, 117, 108, 108>>)
          /\ unsealCalls[UnsealOfPosition[i]].error = <<"TypeError">>
          /\ unsealCalls[UnsealOfPosition[i]].log = <<>>

\* Unsealer.unseal was called with the number 1 and with the object {} and
\* found no sender key
NumberUnsealed ==
    /\ codec.decodeCall.pc = "failed"
    /\ \E i \in codec.decodeCall.unsealed :
          /\ codec.decodeCall.input[i].data.bytes = TextEncoderEncode(<<49>>)
          /\ unsealCalls[UnsealOfPosition[i]].error = <<"Unknown sender key">>

EmptyObjectUnsealed ==
    /\ codec.decodeCall.pc = "failed"
    /\ \E i \in codec.decodeCall.unsealed :
          /\ codec.decodeCall.input[i].data.bytes = TextEncoderEncode(<<123, 125>>)
          /\ unsealCalls[UnsealOfPosition[i]].error = <<"Unknown sender key">>

\* an object with the kid of a sender and nothing else reached verifyEnvelope
ForeignObjectRefused ==
    /\ codec.decodeCall.pc = "failed"
    /\ \E u \in DOMAIN unsealCalls :
          /\ IsForeign(unsealCalls[u].envelope)
          /\ unsealCalls[u].error = <<"Invalid envelope signature">>
          /\ unsealCalls[u].log = <<"verify">>

\* data that is no JSON text made the callback throw without a call of unseal
JsonParseThrew ==
    /\ codec.decodeCall.pc = "failed"
    /\ codec.decodeCall.threw # {}
    /\ codec.decodeCall.unsealed = {}

\* the batch "got" is the encoded batch "made" with the bytes of one
\* envelope modified
OneEnvelopeModified(made, got) ==
    /\ Len(got) = Len(made)
    /\ \E i \in 1..Len(made) :
          /\ got[i].data.bytes \in DataChanges(made[i].data.bytes)
          /\ \A j \in 1..Len(made) : j # i => got[j] = made[j]

\* the batch in transit holds payloads a codec encoded, and its decoding by
\* who is one of the three cases: who is not among the recipients, the
\* encoder is not among the senders, the bytes of an envelope were modified
ToBeRejected(who) ==
    /\ codec.encodeCall.pc = "done"
    /\ codec.encodeCall.result # <<>>
    /\ codec.sent
    /\ \/ /\ codec.batch = codec.encodeCall.result
           /\ \/ who \notin Range(codec.options.recipients)
              \/ codec.encodeCall.who \notin Range(codec.options.senders)
       \/ OneEnvelopeModified(codec.encodeCall.result, codec.batch)

\* C25: Codec and codec server rejection.  decode of a codec-encoded payload
\* fails and produces no decoded payload when the decoding party was not
\* among the recipients, when the envelope was signed by a sender not in
\* senderPublicKeys, or when the envelope bytes were modified; and /decode
\* answers such a request with status 500, never with 200 or decoded data.
C25_CodecRejection ==
    /\ (codec.decodeCall.pc # "idle" /\ ToBeRejected(codec.decodeCall.who))
          => /\ codec.decodeCall.pc # "done"
             /\ codec.decodeCall.result = <<>>
    /\ ( /\ codec.reply.route = "decode"
         /\ codec.reply.body.has
         /\ ToBeRejected(codec.reply.who) )
          => /\ codec.reply.response.status # 200
             /\ codec.reply.response.payloads = <<>>
             /\ CodecEnded(codec.decodeCall) => codec.reply.response.status = 500

\* the bytes an envelope's strings decode to differ between made and got, or
\* got does not parse, or got is the text of another JSON value
DecodedBytesDiffer(made, got) ==
    \/ got.tag # "json"
    \/ got.broken
    \/ got.doc.kid # made.doc.kid
    \/ got.doc.payload.b # made.doc.payload.b
    \/ got.doc.signature.b # made.doc.signature.b
    \/ got.doc.ctx.b # made.doc.ctx.b
    \/ \E r \in DOMAIN made.doc.cek : got.doc.cek[r].b # made.doc.cek[r].b

\* The rejection that does hold: a decoder that is no recipient, an encoder
\* that is no sender, and every modification that changes the kid or the
\* bytes a base64 string decodes to or breaks the JSON text.
CodecRejectsChangedBytes ==
    LET made == codec.encodeCall.result
        got == codec.batch
        changed == \E i \in 1..Len(made) :
                      DecodedBytesDiffer(made[i].data.bytes, got[i].data.bytes)
    IN  /\ ( /\ codec.decodeCall.pc # "idle"
             /\ ToBeRejected(codec.decodeCall.who)
             /\ got # made => changed )
              => /\ codec.decodeCall.pc # "done"
                 /\ codec.decodeCall.result = <<>>
        /\ ( /\ codec.reply.route = "decode"
             /\ codec.reply.body.has
             /\ ToBeRejected(codec.reply.who)
             /\ got # made => changed )
              => /\ codec.reply.response \in {Pending, InternalServerError}
                 /\ CodecEnded(codec.decodeCall)
                       => codec.reply.response = InternalServerError

\* the server of zed, who is no recipient, answered 500 to what bob encoded
CodecServerRejected ==
    /\ codec.reply.route = "decode"
    /\ codec.reply.who = "zed"
    /\ codec.reply.body.has
    /\ codec.encodeCall.who = "bob"
    /\ codec.batch = codec.encodeCall.result
    /\ codec.batch # <<>>
    /\ codec.reply.response.status = 500

\* a changed batch that a decode call returned payloads for
ChangedBatchDecoded ==
    /\ ToBeRejected(codec.decodeCall.who)
    /\ codec.batch # codec.encodeCall.result
    /\ codec.decodeCall.pc = "done"
    /\ codec.decodeCall.result = codec.encodeCall.input

\* the codec call a request awaits
CallOfReply(reply) ==
    IF reply.route = "decode" THEN codec.decodeCall ELSE codec.encodeCall

\* the codec call of the request failed: the body had no payloads to read,
\* or the codec threw
CodecCallFailed(reply) ==
    \/ ~reply.body.has
    \/ CallOfReply(reply).pc = "failed"

\* C30: Uniform failure response.  Every /decode and /encode request whose
\* codec call fails, whatever the reason, is answered with status 500 and
\* the body {error: 'Internal server error'} and nothing else, so that the
\* answers to any two such requests are identical; and no request whose
\* codec call succeeds is answered so.
C30_UniformFailure ==
    codec.reply # NoReply
        => IF CodecCallFailed(codec.reply)
           THEN codec.reply.response = InternalServerError
           ELSE IF CallOfReply(codec.reply).pc = "done"
           THEN codec.reply.response.status = 200
           ELSE codec.reply.response = Pending

\* the answer of a request and what its codec call came to agree in full:
\* the payloads answered are those the call returned, through toJSON, and a
\* rejected call has made no payload of its batch known
AnswerIsOfTheCall ==
    LET reply == codec.reply
        call == CallOfReply(reply)
    IN  (reply # NoReply /\ reply.body.has)
            => /\ call.who = reply.who
               /\ call.input = requestPayloads(reply.body)
               /\ call.pc = "done" => reply.response = replySend(call.result)
               /\ call.pc = "failed" => reply.response = routeCatch(reply.body)

\* /decode answered 500 to a body without payloads
MalformedBodyAnswered ==
    /\ codec.reply.route = "decode"
    /\ ~codec.reply.body.has
    /\ codec.reply.response = InternalServerError

\* /decode answered 500 to an envelope of a sender that is not listed
C30_Witness ==
    /\ codec.reply.route = "decode"
    /\ codec.reply.body.has
    /\ codec.reply.who = "bob"
    /\ codec.encodeCall.who = "zed"
    /\ codec.batch = codec.encodeCall.result
    /\ codec.batch # <<>>
    /\ codec.decodeCall.pc = "failed"
    /\ codec.reply.response = InternalServerError

\* /decode answered 200 with the decoded payloads
DecodedAnswered ==
    /\ codec.reply.route = "decode"
    /\ codec.reply.response.status = 200
    /\ codec.batch = codec.encodeCall.result
    /\ codec.batch # <<>>
    /\ codec.reply.response.payloads
          = [i \in 1..Len(codec.encodeCall.input) |-> toJSON(codec.encodeCall.input[i])]

\* a request is being handled: its handler awaits the codec call, which
\* awaits the calls of its payloads
RequestBeingHandled ==
    /\ codec.reply.route = "decode"
    /\ codec.reply.response = Pending
    /\ codec.decodeCall.pc = "all"
    /\ \E u \in DOMAIN unsealCalls : unsealCalls[u].log # <<>>

\* /encode answered 200 with as many payloads as it was sent
EncodeAnswered ==
    /\ codec.reply.route = "encode"
    /\ codec.reply.response.status = 200
    /\ Len(codec.reply.response.payloads) = 2

(***************************************************************************)
(* Two seal calls on the same input, and the ctx of one envelope put on    *)
(* the other                                                               *)
(***************************************************************************)

\* the envelope of seal call c1 with the ctx of seal call c2 in place of its own
CtxSwapped(c1, c2) == [sealCalls[c1].result EXCEPT !.ctx = sealCalls[c2].result.ctx]

\* Unsealer.unseal of the envelope one seal call returned, carrying the ctx
\* of the envelope another seal call returned
UnsealerUnsealSwapped(u, c1, c2) ==
    /\ c1 # c2
    /\ unsealCalls[u].pc = "idle"
    /\ sealCalls[c1].pc = "done"
    /\ sealCalls[c2].pc = "done"
    /\ unsealCalls' = [unsealCalls EXCEPT ![u] =
          [UnsealerUnsealEnter(unsealers[u], CtxSwapped(c1, c2)) EXCEPT
              !.api = "Unsealer.unseal"]]
    /\ UNCHANGED <<codec, createCalls, suite, sealer, unsealers, sealCalls, wire, touched>>

NextSwapped ==
    \/ \E c \in ConcurrentSealIds : SealerSealConcurrently(c)
    \/ \E c \in ConcurrentSealIds : GenerateCEK(c)
    \/ \E c \in ConcurrentSealIds : EncryptPayload(c)
    \/ \E c \in ConcurrentSealIds : EncryptCEK(c)
    \/ \E c \in ConcurrentSealIds : SignEnvelope(c)
    \/ \E c \in ConcurrentSealIds : SealDigest(c)
    \/ \E u \in Recipients, c \in ConcurrentSealIds : UnsealerUnsealReturned(u, c)
    \/ \E u \in Recipients, c1, c2 \in ConcurrentSealIds : UnsealerUnsealSwapped(u, c1, c2)
    \/ \E u \in Recipients : VerifyEnvelope(u)
    \/ \E u \in Recipients : DecryptCEK(u)
    \/ \E u \in Recipients : UnsealDigest(u)
    \/ \E u \in Recipients : Decrypt(u)

SpecSwapped == InitConcurrent /\ [][NextSwapped]_vars

\* two seal calls that returned, made with the same plaintext and the same
\* recipient list on the one Sealer
SameInput(c1, c2) ==
    /\ c1 # c2
    /\ sealCalls[c1].pc = "done"
    /\ sealCalls[c2].pc = "done"
    /\ sealCalls[c1].payload = sealCalls[c2].payload
    /\ sealCalls[c1].requested = sealCalls[c2].requested

\* the unseal call was made on the envelope of one seal call with the ctx of another
OnSwapped(call) ==
    \E c1, c2 \in DOMAIN sealCalls :
        /\ c1 # c2
        /\ sealCalls[c1].pc = "done"
        /\ sealCalls[c2].pc = "done"
        /\ call.envelope = CtxSwapped(c1, c2)

\* C31: Seal is randomized.  Two separate seal calls with the same plaintext,
\* signer and recipients return envelopes whose payload, ctx and every cek
\* blob differ, as bytes and as the texts in the envelope; the ctx of one is
\* not the digest of the other's payload, so an unseal call of the one
\* envelope with the other's ctx never passes the ctx comparison: it does not
\* reach decryption, does not return, and when it gets as far as the
\* comparison it throws "Invalid CTX tag".
C31_RandomizedSeal ==
    /\ \A c1, c2 \in DOMAIN sealCalls :
          SameInput(c1, c2) =>
             LET e1 == sealCalls[c1].result
                 e2 == sealCalls[c2].result
             IN  /\ e1.payload # e2.payload
                 /\ base64ToUint8Array(e1.payload) # base64ToUint8Array(e2.payload)
                 /\ e1.ctx # e2.ctx
                 /\ base64ToUint8Array(e1.ctx) # base64ToUint8Array(e2.ctx)
                 /\ DOMAIN e1.cek = DOMAIN e2.cek
                 /\ DOMAIN e1.cek # {}
                 /\ \A k \in DOMAIN e1.cek :
                       /\ e1.cek[k] # e2.cek[k]
                       /\ base64ToUint8Array(e1.cek[k]) # base64ToUint8Array(e2.cek[k])
                 /\ ctxMatches(e1)
                 /\ ~ctxMatches(CtxSwapped(c1, c2))
    /\ \A u \in DOMAIN unsealCalls :
          LET call == unsealCalls[u]
          IN  (call.pc # "idle" /\ OnSwapped(call)) =>
                 /\ call.pc \notin {"decrypt", "done"}
                 /\ (call.pc = "failed" /\ call.log # <<>> /\ call.log[Len(call.log)] = "digest")
                       => call.error = <<"Invalid CTX tag">>

\* two seal calls with the same plaintext for carol and bob returned, and the
\* unseal of the envelope of one with the ctx of the other threw at the ctx
\* comparison
C31_Witness ==
    \E c1, c2 \in DOMAIN sealCalls :
        /\ SameInput(c1, c2)
        /\ sealCalls[c1].requested = <<"carol", "bob">>
        /\ \E u \in DOMAIN unsealCalls :
              /\ unsealCalls[u].envelope = CtxSwapped(c1, c2)
              /\ unsealCalls[u].pc = "failed"
              /\ unsealCalls[u].error = <<"Invalid CTX tag">>
              /\ unsealCalls[u].log[Len(unsealCalls[u].log)] = "digest"


(***************************************************************************)
(* Recipient lists that name an id more than once                          *)
(***************************************************************************)

\* requests for bob, for bob and carol, and for the key whose kid is
\* "__proto__": with and without repetition, in either order
DuplicateLists ==
    {<<"bob">>, <<"bob", "bob">>,
     <<"bob", "carol">>, <<"carol", "bob">>, <<"bob", "carol", "bob">>,
     <<"carol", "carol", "bob">>,
     <<PrototypeKid, PrototypeKid>>, <<"bob", "bob", PrototypeKid>>}

\* Sealer.seal with such a list, one call after the other
SealerSealDuplicates(c) ==
    /\ SealMayBegin(c)
    /\ \E recipientKids \in DuplicateLists :
          sealCalls' = [sealCalls EXCEPT ![c] =
              [SealerSealEnter(sealer, [str |-> TRUE, v |-> <<233>>], recipientKids) EXCEPT
                  !.api = "Sealer.seal", !.requested = recipientKids]]
    /\ UNCHANGED <<codec, createCalls, suite, sealer, unsealers, wire, touched, unsealCalls>>

\* alice's Sealer for bob, carol and "__proto__"; bob's and carol's Unsealers
InitDuplicates ==
    /\ createCalls = [w \in Creators |-> IdleCreate]
    /\ suite \in Suites
    /\ sealer = SealerCreate(SigningJWK("alice", suite, TRUE),
                             <<EncryptionJWK("bob", suite, FALSE),
                               EncryptionJWK("carol", suite, FALSE),
                               EncryptionJWK(PrototypeKid, suite, FALSE)>>, suite)
    /\ unsealers = [r \in Recipients |->
          UnsealerCreate(EncryptionJWK(r, suite, TRUE),
                         <<SigningJWK("alice", suite, FALSE)>>, suite)]
    /\ sealCalls = [c \in ConcurrentSealIds |-> IdleSeal]
    /\ wire = NoEnvelope
    /\ touched = {}
    /\ unsealCalls = [u \in Recipients |-> IdleUnseal]
    /\ codec = IdleCodec

NextDuplicates ==
    \/ \E c \in ConcurrentSealIds : SealerSealDuplicates(c)
    \/ \E c \in ConcurrentSealIds : GenerateCEK(c)
    \/ \E c \in ConcurrentSealIds : EncryptPayload(c)
    \/ \E c \in ConcurrentSealIds : EncryptCEK(c)
    \/ \E c \in ConcurrentSealIds : SignEnvelope(c)
    \/ \E c \in ConcurrentSealIds : SealDigest(c)
    \/ \E u \in Recipients, c \in ConcurrentSealIds : UnsealerUnsealReturned(u, c)
    \/ \E u \in Recipients : VerifyEnvelope(u)
    \/ \E u \in Recipients : DecryptCEK(u)
    \/ \E u \in Recipients : UnsealDigest(u)
    \/ \E u \in Recipients : Decrypt(u)

SpecDuplicates == InitDuplicates /\ [][NextDuplicates]_vars

\* the list names some id more than once
HasDuplicate(kids) == \E i, j \in 1..Len(kids) : i # j /\ kids[i] = kids[j]

\* recipient u's Unsealer.unseal of the envelope returns the plaintext
AbleToUnseal(u, envelope) == unsealWhole(unsealers[u], envelope).ok

\* what the claim says of the seal calls whose list satisfies Listed
DuplicatesSealed(Listed(_)) ==
    /\ \A c \in DOMAIN sealCalls :
          LET call == sealCalls[c]
              ids == Range(call.requested)
          IN  (/\ call.pc # "idle"
               /\ HasDuplicate(call.requested)
               /\ ids \subseteq DOMAIN sealer.recipientKeys
               /\ Listed(call.requested)) =>
                 /\ call.pc # "failed"
                 /\ WrapCount(call.log) <= Cardinality(ids)
                 /\ call.pc \in {"signEnvelope", "digest", "done"}
                       => /\ WrapCount(call.log) = Cardinality(ids)
                          /\ DOMAIN call.encryptedCEKs = ids
                 /\ call.pc = "done" => DOMAIN call.result.cek = ids
    /\ \A c1, c2 \in DOMAIN sealCalls :
          (/\ sealCalls[c1].pc = "done"
           /\ sealCalls[c2].pc = "done"
           /\ Listed(sealCalls[c1].requested)
           /\ Listed(sealCalls[c2].requested)
           /\ Range(sealCalls[c1].requested) = Range(sealCalls[c2].requested)) =>
              \A u \in Recipients :
                  AbleToUnseal(u, sealCalls[c1].result) <=> AbleToUnseal(u, sealCalls[c2].result)
    /\ \A u \in DOMAIN unsealCalls :
          Finished(unsealCalls[u]) =>
              (unsealCalls[u].pc = "done" <=> AbleToUnseal(u, unsealCalls[u].envelope))

AnyList(kids) == TRUE
PlainList(kids) == PrototypeKid \notin Range(kids)

\* C32: Duplicate recipient ids.  Sealer.seal called with a list in which a
\* known recipient id occurs more than once succeeds, wraps the CEK once for
\* each id, and returns an envelope whose cek key set is the set of distinct
\* requested ids; two lists with the same ids, whatever their order and
\* repetitions, give envelopes that the same recipients are able to unseal.
C32_DuplicateRecipients == DuplicatesSealed(AnyList)

\* the same for lists that do not name the kid "__proto__"
DuplicatesOfPlainKids == DuplicatesSealed(PlainList)

\* seal calls for <<bob, carol, bob>> and <<carol, bob>> returned, and carol
\* unsealed the envelope of the first
DuplicatesSealedAndUnsealed ==
    /\ sealCalls["s1"].pc = "done"
    /\ sealCalls["s1"].requested = <<"bob", "carol", "bob">>
    /\ sealCalls["s2"].pc = "done"
    /\ sealCalls["s2"].requested = <<"carol", "bob">>
    /\ unsealCalls["carol"].pc = "done"
    /\ unsealCalls["carol"].envelope = sealCalls["s1"].result

\* a seal call for <<"__proto__", "__proto__">> threw
DuplicatePrototypeKidThrown ==
    /\ sealCalls["s1"].requested = <<PrototypeKid, PrototypeKid>>
    /\ sealCalls["s1"].pc = "failed"
    /\ sealCalls["s1"].error = <<"No recipients specified">>


(***************************************************************************)
(* Batches in the codec                                                    *)
(***************************************************************************)

\* the shared options, and options whose one recipient key has the kid
\* "__proto__", for which every seal call throws
BatchOptions ==
    CodecOptions
        \cup {[recipients |-> <<PrototypeKid>>, senders |-> <<"bob", "carol">>,
               senderSuite |-> suite]}

InitBatch ==
    /\ createCalls = [w \in CodecCreates |-> IdleCreate]
    /\ suite \in Suites
    /\ sealer = SealerCreate(SigningJWK("alice", suite, TRUE),
                             <<EncryptionJWK("bob", suite, FALSE),
                               EncryptionJWK("carol", suite, FALSE),
                               EncryptionJWK(PrototypeKid, suite, FALSE)>>, suite)
    /\ unsealers = [r \in Recipients |->
          UnsealerCreate(EncryptionJWK(r, suite, TRUE),
                         <<SigningJWK("alice", suite, FALSE)>>, suite)]
    /\ sealCalls = [c \in Range(CallOfPosition) |-> IdleSeal]
    /\ wire = NoEnvelope
    /\ touched = {}
    /\ unsealCalls = [u \in Range(UnsealOfPosition) |-> IdleUnseal]
    /\ codec \in {[IdleCodec EXCEPT !.options = o] : o \in BatchOptions}

SpecBatch == InitBatch /\ [][NextCodec]_vars

\* the Sealer and the Unsealer a party's codec creates from the options
SealerOfCodec(who) ==
    SealerCreate(SigningJWK(who, suite, TRUE), CodecRecipientJwks(codec.options), suite)
UnsealerOfCodec(who) ==
    UnsealerCreate(EncryptionJWK(who, suite, TRUE), CodecSenderJwks(codec.options), suite)

\* the seal call for the payload at place i of an encode call, and the
\* decoding of the payload at place i of a decode call, each taken alone
SealedAlone(call, i) ==
    sealWhole(SealerOfCodec(call.who), CallOfPosition[i],
              [str |-> FALSE, v |-> PayloadEncode(call.input[i])], codec.options.recipients)
DecodedAlone(call, i) == decodeOne(UnsealerOfCodec(call.who), call.input[i])

\* the call is to reject: no instance can be created from the options, or
\* the payload at some place alone fails
EncodeToReject(call) ==
    \/ ~IsInstance(SealerOfCodec(call.who))
    \/ \E i \in 1..Len(call.input) : ~SealedAlone(call, i).ok
DecodeToReject(call) ==
    \/ ~IsInstance(UnsealerOfCodec(call.who))
    \/ \E i \in 1..Len(call.input) : ~DecodedAlone(call, i).ok

\* C33: Codec batch atomicity.  encode and decode treat each payload of a
\* batch on its own and join the results with Promise.all: when the seal or
\* unseal of any one payload fails the call rejects and the caller gets no
\* list, not even of the payloads that went through; when none fails the
\* call returns a list of the input's length in which place i holds what
\* payload i alone gives.  The server answers a rejected call with no
\* payloads and a fulfilled one with as many payloads as it was sent.
C33_BatchAtomicity ==
    LET enc == codec.encodeCall
        dec == codec.decodeCall
        reply == codec.reply
    IN  /\ enc.pc # "idle" =>
              /\ enc.result # <<>> => enc.pc = "done"
              /\ IF EncodeToReject(enc)
                 THEN enc.pc # "done"
                 ELSE /\ enc.pc # "failed"
                      /\ enc.pc = "done" =>
                            /\ Len(enc.result) = Len(enc.input)
                            /\ \A i \in 1..Len(enc.input) :
                                  /\ ~NotOurEncoding(enc.result[i])
                                  /\ JsonParse(enc.result[i].data.bytes)
                                        = SealedAlone(enc, i).envelope
        /\ dec.pc # "idle" =>
              /\ dec.result # <<>> => dec.pc = "done"
              /\ IF DecodeToReject(dec)
                 THEN dec.pc # "done"
                 ELSE /\ dec.pc # "failed"
                      /\ dec.pc = "done" =>
                            /\ Len(dec.result) = Len(dec.input)
                            /\ \A i \in 1..Len(dec.input) :
                                  dec.result[i] = DecodedAlone(dec, i).payload
        /\ reply # NoReply =>
              /\ reply.response.status = 500 => reply.response.payloads = <<>>
              /\ reply.response.status = 200
                    => Len(reply.response.payloads) = Len(reply.body.payloads)
              /\ reply.response.status \in {0, 200, 500}
              /\ reply.response = Pending => ~CodecEnded(CallOfReply(reply))

\* a decode call on two payloads, of which one alone decodes and the other
\* alone fails, rejected and returned nothing
C33_Witness ==
    LET dec == codec.decodeCall
    IN  /\ dec.pc = "failed"
        /\ dec.created
        /\ Len(dec.input) = 2
        /\ \E i, j \in 1..2 : DecodedAlone(dec, i).ok /\ DecodedAlone(dec, i).unsealed
                                /\ ~DecodedAlone(dec, j).ok
        /\ dec.result = <<>>

\* a call rejects in the step in which the first of its payloads fails, and
\* not before: while it awaits Promise.all no callback has rejected
RejectsWithTheFirstFailure ==
    /\ codec.encodeCall.pc = "all"
          => \A i \in 1..Len(codec.encodeCall.input) :
                sealCalls[CallOfPosition[i]].pc \notin {"idle", "failed"}
    /\ codec.decodeCall.pc = "all"
          => /\ codec.decodeCall.threw = {}
             /\ \A i \in codec.decodeCall.unsealed :
                   unsealCalls[UnsealOfPosition[i]].pc \notin {"idle", "failed"}
    /\ (codec.decodeCall.pc = "failed" /\ codec.decodeCall.created)
          => \/ codec.decodeCall.threw # {}
             \/ \E i \in codec.decodeCall.unsealed :
                   unsealCalls[UnsealOfPosition[i]].pc = "failed"

\* decode rejected while the unseal call of another payload is still under
\* way, and that call goes on to return
RejectedWhileUnsealing ==
    /\ codec.decodeCall.pc = "failed"
    /\ \E u \in DOMAIN unsealCalls :
          unsealCalls[u].log # <<>> /\ unsealCalls[u].pc \notin {"done", "failed"}

UnsealedBehindTheRejection ==
    /\ codec.decodeCall.pc = "failed"
    /\ \E u, v \in DOMAIN unsealCalls :
          /\ unsealCalls[u].pc = "failed"
          /\ unsealCalls[u].error = <<"Unknown sender key">>
          /\ unsealCalls[v].pc = "done"

\* an encode call on two payloads rejected because sealing failed
EncodeBatchRejected ==
    /\ codec.encodeCall.pc = "failed"
    /\ Len(codec.encodeCall.input) = 2
    /\ IsInstance(SealerOfCodec(codec.encodeCall.who))
    /\ codec.encodeCall.result = <<>>

\* a decode call on two sealed payloads returned both
DecodeBatchReturned ==
    /\ codec.decodeCall.pc = "done"
    /\ codec.decodeCall.unsealed = {1, 2}
    /\ Len(codec.decodeCall.result) = 2


(***************************************************************************)
(* Payloads through toJSON and fromJSON                                    *)
(***************************************************************************)

\* the longest data of a payload, and the values its bytes take
MaxDataLength == 3
ByteValues == {0, 233, 255}

\* payloads: metadata absent, empty, or with one entry whose value is empty
\* or not; data absent, or a byte array of any length up to the longest
JsonPayloads ==
    {[metadata |-> m, data |-> d] :
        m \in {NoMetadata, Metadata(NoMetadata.map)}
                 \cup {Metadata([k \in {METADATA_ENCODING_KEY} |-> Raw(q)]) :
                          q \in {<<>>, <<255>>, <<0, 233>>}},
        d \in {NoData} \cup {Data(Raw(q)) : q \in SeqsUpTo(ByteValues, MaxDataLength)}}

InitJson ==
    /\ createCalls = [w \in Creators |-> IdleCreate]
    /\ suite \in Suites
    /\ sealer = SealerCreate(SigningJWK("alice", suite, TRUE),
                             <<EncryptionJWK("bob", suite, FALSE),
                               EncryptionJWK("carol", suite, FALSE),
                               EncryptionJWK(PrototypeKid, suite, FALSE)>>, suite)
    /\ unsealers = [r \in Recipients |->
          UnsealerCreate(EncryptionJWK(r, suite, TRUE),
                         <<SigningJWK("alice", suite, FALSE)>>, suite)]
    /\ sealCalls = [c \in SealIds |-> IdleSeal]
    /\ wire = NoEnvelope
    /\ touched = {}
    /\ unsealCalls = [u \in Recipients |-> IdleUnseal]
    /\ codec \in {[IdleCodec EXCEPT !.batch = <<p>>] : p \in JsonPayloads}

\* payloads.map(toJSON): the payload becomes a JSONPayload
ToJSON ==
    /\ codec.reply = NoReply
    /\ codec' = [codec EXCEPT !.reply =
          [NoReply EXCEPT !.route = "toJSON",
                          !.body = Body([i \in 1..Len(codec.batch) |-> toJSON(codec.batch[i])])]]
    /\ UNCHANGED <<createCalls, suite, sealer, unsealers, sealCalls, wire, touched, unsealCalls>>

\* raw.map(fromJSON): the JSONPayload becomes a payload again
FromJSON ==
    /\ codec.reply.route = "toJSON"
    /\ codec.decodeCall.pc = "idle"
    /\ codec' = [codec EXCEPT !.decodeCall =
          [IdleCodecCall EXCEPT
              !.pc = "done", !.input = codec.batch,
              !.result = [i \in 1..Len(codec.reply.body.payloads) |->
                             fromJSON(codec.reply.body.payloads[i])]]]
    /\ UNCHANGED <<createCalls, suite, sealer, unsealers, sealCalls, wire, touched, unsealCalls>>

NextJson ==
    \/ ToJSON
    \/ FromJSON

SpecJson == InitJson /\ [][NextJson]_vars

\* the same metadata keys with the same byte values, and the same data bytes;
\* absent is absent, be it undefined or null
SamePayload(p, q) ==
    /\ p.metadata.has = q.metadata.has
    /\ DOMAIN p.metadata.map = DOMAIN q.metadata.map
    /\ \A k \in DOMAIN p.metadata.map : p.metadata.map[k] = q.metadata.map[k]
    /\ p.data.has = q.data.has
    /\ p.data.bytes = q.data.bytes

\* C34: JSON payload conversion round trip.  For every Payload p,
\* fromJSON(toJSON(p)) has the same metadata keys with the same byte values
\* and the same data bytes as p, also when data is an empty byte array and
\* when metadata or data is absent.
C34_JsonRoundTrip ==
    codec.decodeCall.pc = "done" =>
        /\ Len(codec.decodeCall.result) = Len(codec.batch)
        /\ \A i \in 1..Len(codec.batch) :
              SamePayload(codec.batch[i], codec.decodeCall.result[i])

\* The round trip where it does hold: metadata always comes back as it was,
\* data comes back as it was when it is absent or holds a byte, and an empty
\* byte array comes back as no data.
JsonRoundTripOfData ==
    codec.decodeCall.pc = "done" =>
        /\ Len(codec.decodeCall.result) = Len(codec.batch)
        /\ \A i \in 1..Len(codec.batch) :
              LET p == codec.batch[i]
                  q == codec.decodeCall.result[i]
              IN  IF p.data.has /\ p.data.bytes = EmptyBytes
                  THEN SamePayload([p EXCEPT !.data = NoData], q)
                  ELSE SamePayload(p, q)
        /\ \A i \in 1..Len(codec.batch) :
              LET p == codec.batch[i]
                  json == codec.reply.body.payloads[i]
              IN  p.data.has =>
                     /\ Len(json.data.text.b64.v) + json.data.text.pad
                           = 4 * ((Len(p.data.bytes.v) + 2) \div 3)
                     /\ \A j \in 1..Len(json.data.text.b64.v) : json.data.text.b64.v[j] \in 0..63

\* a payload with an entry of metadata and data of as many bytes as data may
\* hold went through both conversions and came back as it was
JsonRoundTripDone ==
    /\ codec.decodeCall.pc = "done"
    /\ codec.batch[1].metadata.map # NoMetadata.map
    /\ codec.batch[1].data.has
    /\ Len(codec.batch[1].data.bytes.v) = MaxDataLength
    /\ codec.decodeCall.result = codec.batch

\* a payload whose data is an empty byte array came back without data
EmptyDataLost ==
    /\ codec.decodeCall.pc = "done"
    /\ codec.batch[1].data = Data(EmptyBytes)
    /\ codec.decodeCall.result[1].data = NoData


(***************************************************************************)
(* The key set create builds                                               *)
(***************************************************************************)

\* the two forms create takes its keys in: an array of descriptors, or an
\* object whose member keys is such an array
AsArray(jwks) == [isArray |-> TRUE, items |-> jwks, keys |-> <<>>]
AsJWKS(jwks) == [isArray |-> FALSE, items |-> <<>>, keys |-> jwks]

\* Array.isArray(recipientKeys) ? recipientKeys : recipientKeys.keys
jwksOf(given) == IF given.isArray THEN given.items ELSE given.keys

\* the longest list of descriptors given to create
MaxDescriptors == 3

\* descriptors that carry a kid with key material of that party and, for
\* one kid of each kind, of another party too, so that two descriptors of
\* one kid may differ
RecipientDescriptors ==
    {JWK(k, suite, <<k, "enc">>, FALSE) : k \in Recipients}
        \cup {JWK("bob", suite, <<"carol", "enc">>, FALSE)}
SenderDescriptors ==
    {JWK(k, suite, <<k, "sig">>, FALSE) : k \in Senders}
        \cup {JWK("alice", suite, <<"amy", "sig">>, FALSE)}

GivenKeys(descriptors) ==
    {AsArray(q) : q \in SeqsUpTo(descriptors, MaxDescriptors)}
        \cup {AsJWKS(q) : q \in SeqsUpTo(descriptors, MaxDescriptors)}

FormOf(given) == IF given.isArray THEN "array" ELSE "jwks"

\* the most create calls made in one behaviour
MaxCreateCalls == 2

CreateCallsMade == Cardinality({w \in DOMAIN createCalls : createCalls[w].pc # "idle"})

\* Sealer.create(privateJwk, recipientKeys) is called by alice, keys in
\* either form
CreateSealerFrom ==
    /\ createCalls["alice"].pc = "idle"
    /\ CreateCallsMade < MaxCreateCalls
    /\ \E given \in GivenKeys(RecipientDescriptors) :
          createCalls' = [createCalls EXCEPT !["alice"] =
              createEnter("Sealer", SigningJWK("alice", suite, TRUE), jwksOf(given),
                          FormOf(given))]
    /\ UNCHANGED <<codec, suite, sealer, unsealers, sealCalls, wire, touched, unsealCalls>>

\* Unsealer.create(privateJwk, senderKeys) is called by recipient r
CreateUnsealerFrom(r) ==
    /\ createCalls[r].pc = "idle"
    /\ CreateCallsMade < MaxCreateCalls
    /\ \E given \in GivenKeys(SenderDescriptors) :
          createCalls' = [createCalls EXCEPT ![r] =
              createEnter("Unsealer", EncryptionJWK(r, suite, TRUE), jwksOf(given),
                          FormOf(given))]
    /\ UNCHANGED <<codec, suite, sealer, unsealers, sealCalls, wire, touched, unsealCalls>>

NextKeySet ==
    \/ CreateSealerFrom
    \/ \E r \in Recipients : CreateUnsealerFrom(r)
    \/ \E w \in Creators : ImportKey(w)

\* a suite of each family
InitKeySet ==
    /\ InitCreate
    /\ suite \in {"RSA", "P-256"}

SpecKeySet == InitKeySet /\ [][NextKeySet]_vars

\* the algorithm the keys of a create call's map are imported for
AlgOfInstance(w) == IF w = "alice" THEN EncAlg(suite) ELSE SigAlg(suite)

\* the place of the last descriptor that carries the kid
LastPlace(jwks, kid) ==
    CHOOSE j \in 1..Len(jwks) :
        jwks[j].kid = kid /\ \A m \in (j + 1)..Len(jwks) : jwks[m].kid # kid

\* the map holds an entry for every kid of the descriptors and no other, and
\* the entry of a kid is the key imported from the last descriptor with it
HoldsLastOfEach(keys, jwks, alg) ==
    /\ DOMAIN keys = {jwks[j].kid : j \in 1..Len(jwks)}
    /\ \A k \in DOMAIN keys : keys[k] = importKey(jwks[LastPlace(jwks, k)], alg)

\* the key map of the instance a create call returned
KeysOfInstance(w) ==
    IF w = "alice" THEN createCalls[w].result.recipientKeys
    ELSE createCalls[w].result.senderKeys

\* C35: Key-set construction.  create inserts the keys given in order: the
\* map of the instance has one entry for every kid that occurs in the input
\* and no other, and the entry of a kid is the key imported from the last
\* descriptor given with that kid; this is so for the Sealer and for the
\* Unsealer, for keys given as an array and as {keys: [...]}.  While the call
\* is under way the same holds of the map built so far and the descriptors
\* imported so far.
C35_KeySetConstruction ==
    \A w \in DOMAIN createCalls :
        LET call == createCalls[w]
        IN  call.pc # "idle" =>
               /\ call.pc \in {"importKey", "done"}
               /\ call.form \in {"array", "jwks"}
               /\ call.pc = "importKey"
                     => /\ call.n \in 1..(1 + Len(call.jwks))
                        /\ HoldsLastOfEach(call.keys, SubSeq(call.jwks, 1, call.n - 2),
                                           AlgOfInstance(w))
                        /\ IF w = "alice" THEN sealer = NoInstance
                           ELSE unsealers[w] = NoInstance
               /\ call.pc = "done"
                     => /\ call.n = 1 + Len(call.jwks)
                        /\ HoldsLastOfEach(KeysOfInstance(w), call.jwks, AlgOfInstance(w))
                        /\ w = "alice" => sealer = call.result
                        /\ w # "alice" => unsealers[w] = call.result

\* a Sealer created from {keys: [...]} with three descriptors, of which the
\* first and the last carry one kid with different keys
C35_Witness ==
    LET call == createCalls["alice"]
    IN  /\ call.pc = "done"
        /\ call.form = "jwks"
        /\ Len(call.jwks) = 3
        /\ call.jwks[1].kid = call.jwks[3].kid
        /\ call.jwks[1].mat # call.jwks[3].mat
        /\ call.jwks[2].kid # call.jwks[1].kid
        /\ Cardinality(DOMAIN call.result.recipientKeys) = 2

\* a create call that has imported a descriptor while another create call
\* has imported its private key only
KeySetCreatesInterleaved ==
    \E r \in Recipients :
        /\ createCalls["alice"].pc = "importKey"
        /\ createCalls["alice"].n = 3
        /\ createCalls[r].pc = "importKey"
        /\ createCalls[r].n = 2

\* an Unsealer created from an array in which two descriptors carry one kid
UnsealerOfDuplicateKids ==
    \E r \in Recipients :
        /\ createCalls[r].pc = "done"
        /\ createCalls[r].form = "array"
        /\ Len(createCalls[r].jwks) = 2
        /\ createCalls[r].jwks[1].kid = createCalls[r].jwks[2].kid
        /\ createCalls[r].jwks[1].mat # createCalls[r].jwks[2].mat

====
